---- MODULE Spec2Model ----
(***************************************************************************)
(* Gena: entitlement-and-context engine of the Telegram relay.             *)
(* State machine of GenaCore (src/src/gena.py), DatabaseManager            *)
(* (src/src/database.py), the GenaBot handlers (src/src/telebot.py), the   *)
(* persona tables (src/src/personas.py), NLUEngine (src/nlu.py) and the    *)
(* JSON migration of src/src/fix_database.py.                              *)
(*                                                                         *)
(* Time is an integer number of clock ticks; the calendar is scaled down   *)
(* (TicksPerMinute ticks per minute, MinutesPerDay minutes per day) so     *)
(* that minute-key and day-key rotation both happen inside MaxTime.        *)
(***************************************************************************)
EXTENDS Integers, Sequences, FiniteSets, TLC

\* ---------------------------------------------------------------- bounds
MaxTime == 5
TicksPerMinute == 2
MinutesPerDay == 2
MaxCount == 7
MaxImages == 5
MaxLog == 2
NumWorkers == 2
MaxHistory == 4
MaxSent == 2
MaxWords == 2

\* Application.builder().token(...).build() leaves concurrent_updates off:
\* the dispatcher awaits one handle_message at a time
NumHandlers == 1

TicksPerDay == TicksPerMinute * MinutesPerDay

Users == {1}
Handlers == 1..NumHandlers
Workers == 1..NumWorkers

\* SQL NULL / Python None, and the empty string '' of get_usage's defaults
None == -1
Empty == -2

\* ------------------------------------------------------- static tables
Plans == {"Free", "Basic", "Premium", "VIP"}

PLAN_LIMITS ==
  [Free    |-> [rate |-> 5,  turns |-> 3,  images |-> 3,  context_turns |-> 3,  custom_instruction |-> FALSE],
   Basic   |-> [rate |-> 10, turns |-> 5,  images |-> 5,  context_turns |-> 5,  custom_instruction |-> FALSE],
   Premium |-> [rate |-> 20, turns |-> 8,  images |-> 10, context_turns |-> 8,  custom_instruction |-> TRUE],
   VIP     |-> [rate |-> 30, turns |-> 10, images |-> 20, context_turns |-> 10, custom_instruction |-> TRUE]]

PLAN_PRICES == [Basic |-> 50, Premium |-> 100, VIP |-> 200]

\* variant: the VIP entry lists no model
ALL_MODELS_vip_empty ==
  [Free    |-> <<"gemini-2.5-flash">>,
   Basic   |-> <<"gemini-2.5-flash", "gemini-2.0-flash">>,
   Premium |-> <<"gemini-2.5-flash", "gemini-2.0-flash", "gemini-1.5-pro">>,
   VIP     |-> <<>>]

ALL_MODELS ==
  [Free    |-> <<"gemini-2.5-flash">>,
   Basic   |-> <<"gemini-2.5-flash", "gemini-2.0-flash">>,
   Premium |-> <<"gemini-2.5-flash", "gemini-2.0-flash", "gemini-1.5-pro">>,
   VIP     |-> <<"gemini-2.5-flash", "gemini-2.0-flash", "gemini-1.5-pro",
                 "gemini-1.5-pro-exp">>]

\* keys of the PERSONAS dictionary, in declaration order
PERSONAS == <<"buddy", "wise", "creative", "geeky", "hype", "chill", "sarcastic", "coach">>

PERSONA_ACCESS ==
  [Free    |-> <<"buddy", "sarcastic">>,
   Basic   |-> <<"buddy", "wise", "creative", "sarcastic">>,
   Premium |-> <<"buddy", "wise", "creative", "geeky", "hype", "sarcastic", "coach">>,
   VIP     |-> PERSONAS]

\* elements of a list
Range(seq) == {seq[i] : i \in DOMAIN seq}

\* plan names offered to upgrade_plan: Free, a paid tier of the table, and a
\* name that is not in the table
PlanInputs == {"Free", "Premium", "Gold"}

\* duration_days offered to upgrade_plan
Durations == {0, 1}

\* ---------------------------------------------------------------- state
VARIABLES
  now,        \* datetime.now(), in ticks
  users,      \* ids with rows in users/plans/settings/usage (init_user)
  plans,      \* plans table:   user -> [plan, expiration]
  usage,      \* usage table:   user -> rate/image window keys and counts
  messages,   \* messages table: user -> append-only log
  media,      \* media table: rows in insertion order (id = position)
  ret,        \* last core call and its return value
  rateCalls,  \* observer: check_rate_limit calls seen per minute-key
  imageCalls, \* observer: check_image_limit calls seen per day-key
  granted,    \* observer: last successful paid upgrade (plan, expiry)
  admits,     \* observer: admitted check_rate_limit calls per minute-key
  hs,         \* in-flight handle_message coroutines
  wk,         \* workers running check_rate_limit as separate transactions
  settings,   \* settings table: user -> model, persona, custom instruction
  nlu,        \* a text handed to detect_intent and the intent it returned
  safety      \* safety_settings table: the singleton row's settings column

vars == <<now, users, plans, usage, messages, media, ret, rateCalls, imageCalls,
          granted, admits, hs, wk, settings, nlu, safety>>

\* ------------------------------------------------------ window keys
\* datetime.now().strftime('%Y-%m-%d %H:%M')
MinuteKey(t) == t \div TicksPerMinute

\* datetime.now().strftime('%Y-%m-%d')
DayKey(t) == t \div TicksPerDay

\* ------------------------------------------------------ DatabaseManager
\* Every operator takes the tables it reads (us: ids with rows, pl: plans,
\* ug: usage) so that a handler can chain several calls in one step.
DefaultPlanRow == [plan |-> "Free", expiration |-> None]

DefaultUsageRow ==
  [rate_limit_minute |-> None, rate_limit_count |-> 0,
   image_limit_count |-> 0, image_limit_reset |-> None]

\* variant: the conflict branch of the upsert deletes the row it found
init_user_conflict_delete(us, u) == IF u \in us THEN us \ {u} ELSE us \cup {u}

\* init_user: upsert of the users row (us: ids that have their rows)
init_user(us, u) == us \cup {u}

\* variant: INSERT OR REPLACE
init_user_row_replace(us, tbl, u, default) == [tbl EXCEPT ![u] = default]

\* init_user: INSERT OR IGNORE INTO plans / settings / usage (user_id); a new
\* row gets the column defaults, an existing row is left alone
init_user_row(us, tbl, u, default) ==
  IF u \in us THEN tbl ELSE [tbl EXCEPT ![u] = default]

\* variant: the UPDATE sets the plan column only
set_user_plan_plan_only(us, pl, u, plan, expiration) ==
  IF u \in us
    THEN [pl EXCEPT ![u].plan = plan]
    ELSE pl

\* variant: the UPDATE has no WHERE clause
set_user_plan_every_row(us, pl, u, plan, expiration) ==
  IF u \in us
    THEN [v \in DOMAIN pl |->
            IF v \in us THEN [plan |-> plan, expiration |-> expiration] ELSE pl[v]]
    ELSE pl

\* UPDATE plans SET plan = ?, expiration = ? WHERE user_id = ?
set_user_plan(us, pl, u, plan, expiration) ==
  IF u \in us
    THEN [pl EXCEPT ![u] = [plan |-> plan, expiration |-> expiration]]
    ELSE pl

\* "if expiration: exp_time = fromisoformat(expiration); exp_time < now()"
Expired(row, t) == row.expiration # None /\ row.expiration < t

\* get_user_plan: the value it returns
get_user_plan_ret(us, pl, u, t) ==
  IF u \notin us THEN "Free"
  ELSE IF Expired(pl[u], t) THEN "Free"
  ELSE pl[u].plan

\* variant: the expired row is left as it is
get_user_plan_db_nowrite(us, pl, u, t) == pl

\* get_user_plan: the plans table it leaves behind
get_user_plan_db(us, pl, u, t) ==
  IF u \in us /\ Expired(pl[u], t)
    THEN set_user_plan(us, pl, u, "Free", None)
    ELSE pl

get_usage(us, ug, u) ==
  IF u \notin us
    THEN [rateLimit  |-> [minute |-> Empty, count |-> 0],
          imageLimit |-> [count |-> 0, resetTime |-> Empty]]
    ELSE [rateLimit  |-> [minute |-> ug[u].rate_limit_minute,
                          count  |-> ug[u].rate_limit_count],
          imageLimit |-> [count  |-> ug[u].image_limit_count,
                          resetTime |-> IF ug[u].image_limit_reset = None
                                          THEN Empty
                                          ELSE ug[u].image_limit_reset]]

\* variant: every column is written, an argument left at None as NULL
update_usage_all_columns(us, ug, u, rate_minute, rate_count, image_count, image_reset) ==
  IF u \in us
    THEN [ug EXCEPT ![u] =
           [rate_limit_minute |-> rate_minute, rate_limit_count |-> rate_count,
            image_limit_count |-> image_count, image_limit_reset |-> image_reset]]
    ELSE ug

\* keyword arguments left at None are not written
update_usage(us, ug, u, rate_minute, rate_count, image_count, image_reset) ==
  IF u \in us
    THEN [ug EXCEPT ![u] =
           [rate_limit_minute |-> IF rate_minute # None THEN rate_minute ELSE @.rate_limit_minute,
            rate_limit_count  |-> IF rate_count # None THEN rate_count ELSE @.rate_limit_count,
            image_limit_count |-> IF image_count # None THEN image_count ELSE @.image_limit_count,
            image_limit_reset |-> IF image_reset # None THEN image_reset ELSE @.image_limit_reset]]
    ELSE ug

\* SQL NULL in the system_instruction text column
NullText == "NULL"

\* settings row as init_user inserts it (column defaults)
DefaultSettingsRow ==
  [model |-> "gemini-2.5-flash", current_persona |-> "friend",
   system_instruction |-> NullText, custom_instruction |-> ""]

\* get_settings: the row as a dict, NULL text columns read as ''; the same
\* defaults when there is no row
get_settings(us, st, u) ==
  IF u \notin us
    THEN [model |-> "gemini-2.5-flash", current_persona |-> "friend",
          systemInstruction |-> "", customInstruction |-> ""]
    ELSE [model |-> st[u].model, current_persona |-> st[u].current_persona,
          systemInstruction |-> IF st[u].system_instruction = NullText
                                  THEN "" ELSE st[u].system_instruction,
          customInstruction |-> st[u].custom_instruction]

\* variant: the row is replaced, columns not named fall back to the defaults
update_settings_replace(us, st, u, kwargs) ==
  LET update_map == [model |-> "model", current_persona |-> "current_persona",
                     systemInstruction |-> "system_instruction",
                     customInstruction |-> "custom_instruction"]
      named(col) == {k \in DOMAIN kwargs \cap DOMAIN update_map : update_map[k] = col}
      fresh == [model |-> "gemini-2.5-flash", current_persona |-> "friend",
                system_instruction |-> NullText, custom_instruction |-> ""]
  IN IF u \in us
       THEN [st EXCEPT ![u] =
              [col \in DOMAIN @ |->
                 IF named(col) # {} THEN kwargs[CHOOSE k \in named(col) : TRUE]
                 ELSE fresh[col]]]
       ELSE st

\* update_settings(**kwargs): UPDATE settings SET the columns named in kwargs
update_settings(us, st, u, kwargs) ==
  LET update_map == [model |-> "model", current_persona |-> "current_persona",
                     systemInstruction |-> "system_instruction",
                     customInstruction |-> "custom_instruction"]
      named(col) == {k \in DOMAIN kwargs \cap DOMAIN update_map : update_map[k] = col}
  IN IF u \in us
       THEN [st EXCEPT ![u] =
              [col \in DOMAIN @ |->
                 IF named(col) # {} THEN kwargs[CHOOSE k \in named(col) : TRUE] ELSE @[col]]]
       ELSE st

\* position of row i of a log in "ORDER BY created_at DESC": the scan of
\* idx_messages_user (user_id, created_at DESC) yields rows of one created_at
\* in rowid order
select_position(log, i) ==
  1 + Cardinality({j \in DOMAIN log :
                     \/ log[j].created_at > log[i].created_at
                     \/ log[j].created_at = log[i].created_at /\ j < i})

\* variant: LIMIT counts exchanges (two rows each)
get_history_pairs(msgs, u, limit) ==
  LET log == msgs[u]
      n == Len(log)
      k == IF n < 2 * limit THEN n ELSE 2 * limit
  IN [m \in 1..k |-> log[CHOOSE i \in DOMAIN log : select_position(log, i) = k + 1 - m]]

\* get_history: the first `limit` rows of the account in created_at DESC
\* order, handed back reversed
get_history(msgs, u, limit) ==
  LET log == msgs[u]
      n == Len(log)
      k == IF n < limit THEN n ELSE limit
  IN [m \in 1..k |-> log[CHOOSE i \in DOMAIN log : select_position(log, i) = k + 1 - m]]

\* get_safety_settings: the decoded settings column; no row, NULL and '[]'
\* all read as the empty list (sf: the stored list)
get_safety_settings(sf) == sf

\* set_safety_settings: upsert of the singleton row
set_safety_settings(sf, new_settings) == new_settings

\* ------------------------------------------------------------ GenaCore
\* the four (category, threshold) pairs of the built-in policy
DEFAULT_SAFETY_SETTINGS ==
  <<[category |-> "HARM_CATEGORY_HARASSMENT", threshold |-> "BLOCK_MEDIUM_AND_ABOVE"],
    [category |-> "HARM_CATEGORY_HATE_SPEECH", threshold |-> "BLOCK_MEDIUM_AND_ABOVE"],
    [category |-> "HARM_CATEGORY_SEXUALLY_EXPLICIT", threshold |-> "BLOCK_MEDIUM_AND_ABOVE"],
    [category |-> "HARM_CATEGORY_DANGEROUS_CONTENT", threshold |-> "BLOCK_MEDIUM_AND_ABOVE"]>>

\* GenaCore.__init__: the built-in policy is stored when nothing is
initialize_safety_settings(sf) ==
  IF get_safety_settings(sf) = <<>>
    THEN set_safety_settings(sf, DEFAULT_SAFETY_SETTINGS)
    ELSE sf

\* PLAN_LIMITS[plan] raises KeyError for a plan that is not a key
KeyError(plan) == plan \notin DOMAIN PLAN_LIMITS

\* variant: admits only below the limit
rate_decide_strict(us, ug, u, plan, rate_data, t) ==
  LET current_minute == MinuteKey(t) IN
  IF rate_data.minute # current_minute
    THEN [usage |-> update_usage(us, ug, u, current_minute, 1, None, None), ret |-> TRUE,
          raised |-> FALSE]
    ELSE LET count == rate_data.count + 1 IN
         [usage |-> update_usage(us, ug, u, None, count, None, None),
          ret   |-> ~KeyError(plan) /\ count < PLAN_LIMITS[plan].rate,
          raised |-> KeyError(plan)]

\* variant: a rejected call is not written back
rate_decide_free_reject(us, ug, u, plan, rate_data, t) ==
  LET current_minute == MinuteKey(t) IN
  IF rate_data.minute # current_minute
    THEN [usage |-> update_usage(us, ug, u, current_minute, 1, None, None), ret |-> TRUE,
          raised |-> FALSE]
    ELSE LET count == rate_data.count + 1 IN
         IF KeyError(plan)
           THEN [usage |-> update_usage(us, ug, u, None, count, None, None), ret |-> FALSE,
                 raised |-> TRUE]
         ELSE IF count <= PLAN_LIMITS[plan].rate
           THEN [usage |-> update_usage(us, ug, u, None, count, None, None), ret |-> TRUE,
                 raised |-> FALSE]
         ELSE [usage |-> ug, ret |-> FALSE, raised |-> FALSE]

\* variant: a new window is started only when the stored key is older
rate_decide_older_only(us, ug, u, plan, rate_data, t) ==
  LET current_minute == MinuteKey(t) IN
  IF rate_data.minute < current_minute
    THEN [usage |-> update_usage(us, ug, u, current_minute, 1, None, None), ret |-> TRUE,
          raised |-> FALSE]
    ELSE LET count == rate_data.count + 1 IN
         [usage |-> update_usage(us, ug, u, None, count, None, None),
          ret   |-> ~KeyError(plan) /\ count <= PLAN_LIMITS[plan].rate,
          raised |-> KeyError(plan)]

\* variant: the count is compared with the limit of the Free tier
rate_decide_free_limit(us, ug, u, plan, rate_data, t) ==
  LET current_minute == MinuteKey(t) IN
  IF rate_data.minute # current_minute
    THEN [usage |-> update_usage(us, ug, u, current_minute, 1, None, None), ret |-> TRUE,
          raised |-> FALSE]
    ELSE LET count == rate_data.count + 1 IN
         [usage |-> update_usage(us, ug, u, None, count, None, None),
          ret   |-> ~KeyError(plan) /\ count <= PLAN_LIMITS["Free"].rate,
          raised |-> KeyError(plan)]

\* check_rate_limit after its two reads: compare keys, write, decide; the
\* limit is looked up after the write, and only when the key has not changed
rate_decide(us, ug, u, plan, rate_data, t) ==
  LET current_minute == MinuteKey(t) IN
  IF rate_data.minute # current_minute
    THEN [usage |-> update_usage(us, ug, u, current_minute, 1, None, None), ret |-> TRUE,
          raised |-> FALSE]
    ELSE LET count == rate_data.count + 1 IN
         [usage |-> update_usage(us, ug, u, None, count, None, None),
          ret   |-> ~KeyError(plan) /\ count <= PLAN_LIMITS[plan].rate,
          raised |-> KeyError(plan)]

check_rate_limit(us, pl, ug, u, t) ==
  LET plan == get_user_plan_ret(us, pl, u, t)
      r == rate_decide(us, ug, u, plan, get_usage(us, ug, u).rateLimit, t)
  IN [plans |-> get_user_plan_db(us, pl, u, t), usage |-> r.usage, ret |-> r.ret,
      plan |-> plan, raised |-> r.raised]

\* variant: a new day keeps counting from the old count
image_decide_noreset(us, ug, u, plan, image_data, t) ==
  LET current_day == DayKey(t)
      count == image_data.count + 1
  IN IF image_data.resetTime # current_day
       THEN [usage |-> update_usage(us, ug, u, None, None, count, current_day), ret |-> TRUE,
             raised |-> FALSE]
       ELSE [usage |-> update_usage(us, ug, u, None, None, count, None),
             ret   |-> ~KeyError(plan) /\ count <= PLAN_LIMITS[plan].images,
             raised |-> KeyError(plan)]

\* variant: compares the image count with the per-minute message limit
image_decide_ratelimit(us, ug, u, plan, image_data, t) ==
  LET current_day == DayKey(t) IN
  IF image_data.resetTime # current_day
    THEN [usage |-> update_usage(us, ug, u, None, None, 1, current_day), ret |-> TRUE,
          raised |-> FALSE]
    ELSE LET count == image_data.count + 1 IN
         [usage |-> update_usage(us, ug, u, None, None, count, None),
          ret   |-> ~KeyError(plan) /\ count <= PLAN_LIMITS[plan].rate,
          raised |-> KeyError(plan)]

\* check_image_limit after its two reads: compare keys, write, decide
image_decide(us, ug, u, plan, image_data, t) ==
  LET current_day == DayKey(t) IN
  IF image_data.resetTime # current_day
    THEN [usage |-> update_usage(us, ug, u, None, None, 1, current_day), ret |-> TRUE,
          raised |-> FALSE]
    ELSE LET count == image_data.count + 1 IN
         [usage |-> update_usage(us, ug, u, None, None, count, None),
          ret   |-> ~KeyError(plan) /\ count <= PLAN_LIMITS[plan].images,
          raised |-> KeyError(plan)]

check_image_limit(us, pl, ug, u, t) ==
  LET plan == get_user_plan_ret(us, pl, u, t)
      r == image_decide(us, ug, u, plan, get_usage(us, ug, u).imageLimit, t)
  IN [plans |-> get_user_plan_db(us, pl, u, t), usage |-> r.usage, ret |-> r.ret,
      plan |-> plan, raised |-> r.raised]

\* upgrade_plan: return value, the expiration it computes, the table it leaves
upgrade_plan_ret(plan) == plan \in DOMAIN PLAN_LIMITS

\* variant: timedelta counted in clock ticks instead of days
upgrade_plan_expiration_ticks(plan, duration_days, t) ==
  IF plan # "Free" THEN t + duration_days ELSE None

upgrade_plan_expiration(plan, duration_days, t) ==
  IF plan # "Free" THEN t + duration_days * TicksPerDay ELSE None

\* variant: the row is written before the plan name is looked up
upgrade_plan_write_first(us, pl, u, plan, duration_days, t) ==
  set_user_plan(us, pl, u, plan, upgrade_plan_expiration(plan, duration_days, t))

upgrade_plan(us, pl, u, plan, duration_days, t) ==
  IF ~upgrade_plan_ret(plan) THEN pl
  ELSE set_user_plan(us, pl, u, plan, upgrade_plan_expiration(plan, duration_days, t))

\* variant: the tier is reset, the expiry is left in the row
cancel_subscription_keeps_expiry(us, pl, u) ==
  set_user_plan(us, pl, u, "Free", pl[u].expiration)

cancel_subscription(us, pl, u) == set_user_plan(us, pl, u, "Free", None)

\* ALL_MODELS.get(plan, ALL_MODELS['Free'])
get_available_models(plan) ==
  IF plan \in DOMAIN ALL_MODELS THEN ALL_MODELS[plan] ELSE ALL_MODELS["Free"]

\* PERSONA_ACCESS.get(plan, ['buddy'])
get_available_personas(plan) ==
  IF plan \in DOMAIN PERSONA_ACCESS THEN PERSONA_ACCESS[plan] ELSE <<"buddy">>

\* the persona whose instruction text is returned
get_persona_instruction(persona_key) ==
  IF persona_key \in Range(PERSONAS) THEN persona_key ELSE "buddy"

\* variant: every known tier may carry a custom instruction
has_custom_instruction_any_tier(us, pl, u, t) ==
  LET plan == get_user_plan_ret(us, pl, u, t) IN
  IF KeyError(plan) THEN [raised |-> TRUE, ret |-> FALSE]
  ELSE [raised |-> FALSE, ret |-> TRUE]

\* has_custom_instruction: PLAN_LIMITS[get_user_plan(user_id)]['custom_instruction']
has_custom_instruction(us, pl, u, t) ==
  LET plan == get_user_plan_ret(us, pl, u, t) IN
  IF KeyError(plan) THEN [raised |-> TRUE, ret |-> FALSE]
  ELSE [raised |-> FALSE, ret |-> PLAN_LIMITS[plan].custom_instruction]

\* str.strip() on the custom-instruction texts of the model
strip(text) ==
  IF text = " " THEN ""
  ELSE IF text = " formal " THEN "formal"
  ELSE text

\* variant: the custom clause is put in front of the name clause
build_system_instruction_custom_first(us, pl, st, u, persona_key, t) ==
  LET persona == [part |-> "persona", text |-> get_persona_instruction(persona_key)]
      name == [part |-> "name", text |-> "first_name"]
      hc == has_custom_instruction(us, pl, u, t)
      custom == strip(get_settings(us, st, u).customInstruction)
  IN IF hc.raised THEN [raised |-> TRUE, ret |-> <<>>]
     ELSE IF hc.ret /\ custom # ""
       THEN [raised |-> FALSE,
             ret |-> <<persona, [part |-> "custom", text |-> custom], name>>]
     ELSE [raised |-> FALSE, ret |-> <<persona, name>>]

\* build_system_instruction: the string as the list of the clauses it is
\* concatenated from
build_system_instruction(us, pl, st, u, persona_key, t) ==
  LET instruction == <<[part |-> "persona", text |-> get_persona_instruction(persona_key)],
                       [part |-> "name", text |-> "first_name"]>>
      hc == has_custom_instruction(us, pl, u, t)
      custom == strip(get_settings(us, st, u).customInstruction)
  IN IF hc.raised THEN [raised |-> TRUE, ret |-> <<>>]
     ELSE IF hc.ret /\ custom # ""
       THEN [raised |-> FALSE,
             ret |-> Append(instruction, [part |-> "custom", text |-> custom])]
     ELSE [raised |-> FALSE, ret |-> instruction]

\* get_context_history
get_context_history(us, pl, msgs, u, t) ==
  LET plan == get_user_plan_ret(us, pl, u, t) IN
  IF KeyError(plan) THEN [raised |-> TRUE, ret |-> <<>>]
  ELSE LET context_turns == PLAN_LIMITS[plan].context_turns IN
       [raised |-> FALSE,
        ret |-> IF context_turns = 0 THEN <<>> ELSE get_history(msgs, u, context_turns)]

\* forget_context: pass
forget_context(msgs, u) == msgs

\* ------------------------------------------------------------ observers
NoCalls == [key |-> None, n |-> 0]

\* one more call seen in window k
Count(c, k) ==
  IF c.key = k THEN [key |-> k, n |-> c.n + 1] ELSE [key |-> k, n |-> 1]

NoGrant == [plan |-> "none", until |-> None]

\* ret also carries the summary of a finished handle_message: how it ended,
\* what its admission checks returned, how many generate_content requests it
\* issued and how many log rows it wrote
NoRet == [op |-> "none", user |-> 0, ok |-> FALSE, plan |-> "none",
          outcome |-> "none", rate |-> "none", image |-> "none",
          calls |-> 0, appended |-> 0]

\* the arguments of a generate_content call (model, system_instruction, the
\* prior turns, contents, the safetySettings of the body), with the persona
\* key and the tier they were built from
NoRequest == [model |-> "none", persona |-> "none", plan |-> "none",
              system_instruction |-> <<>>, history |-> <<>>, contents |-> <<>>,
              safety_settings |-> <<>>]

\* a handle_message coroutine: where it is suspended, the update it handles,
\* and what it has done so far (rate/image: result of its admission checks,
\* calls: generate_content requests issued)
IdleHandler == [pc |-> "idle", user |-> 0, kind |-> "none", media_id |-> None,
                rate |-> "none", image |-> "none", calls |-> 0, request |-> NoRequest]

\* no text has been handed to detect_intent
NoText == [text |-> <<>>, intent |-> "unset"]

\* a check_rate_limit call between its reads and its write
IdleWorker == [pc |-> "idle", user |-> 0, plan |-> "none",
               rate_data |-> [minute |-> Empty, count |-> 0], ok |-> FALSE]

Init ==
  /\ now = 0
  /\ users = {}
  /\ plans = [u \in Users |-> DefaultPlanRow]
  /\ usage = [u \in Users |-> DefaultUsageRow]
  /\ messages = [u \in Users |-> <<>>]
  /\ media = <<>>
  /\ ret = NoRet
  /\ rateCalls = [u \in Users |-> NoCalls]
  /\ imageCalls = [u \in Users |-> NoCalls]
  /\ granted = [u \in Users |-> NoGrant]
  /\ admits = [u \in Users |-> NoCalls]
  /\ hs = [h \in Handlers |-> IdleHandler]
  /\ wk = [w \in Workers |-> IdleWorker]
  /\ settings = [u \in Users |-> DefaultSettingsRow]
  /\ nlu = NoText
  /\ safety = initialize_safety_settings(<<>>)

\* ------------------------------------------------- core operations (Spec)
Tick ==
  /\ now < MaxTime
  /\ now' = now + 1
  /\ UNCHANGED <<users, plans, usage, messages, media, ret, rateCalls, imageCalls,
               granted, admits, hs, wk, settings, nlu, safety>>

\* GenaCore.initialize_user
InitUser(u) ==
  /\ users' = init_user(users, u)
  /\ plans' = init_user_row(users, plans, u, DefaultPlanRow)
  /\ settings' = init_user_row(users, settings, u, DefaultSettingsRow)
  /\ usage' = init_user_row(users, usage, u, DefaultUsageRow)
  /\ ret' = [NoRet EXCEPT !.op = "init_user", !.user = u]
  /\ UNCHANGED <<now, messages, media, rateCalls, imageCalls, granted, admits, hs, wk,
                 nlu, safety>>

GetUserPlan(u) ==
  /\ plans' = get_user_plan_db(users, plans, u, now)
  /\ ret' = [NoRet EXCEPT !.op = "get_user_plan", !.user = u, !.ok = TRUE,
                           !.plan = get_user_plan_ret(users, plans, u, now)]
  /\ UNCHANGED <<now, users, usage, messages, media, rateCalls, imageCalls, granted, admits, hs, wk, settings, nlu, safety>>

UpgradePlan(u, plan, d) ==
  /\ plans' = upgrade_plan(users, plans, u, plan, d, now)
  /\ ret' = [NoRet EXCEPT !.op = "upgrade_plan", !.user = u,
                           !.ok = upgrade_plan_ret(plan), !.plan = plan]
  /\ granted' = IF upgrade_plan_ret(plan) /\ u \in users
                  THEN [granted EXCEPT ![u] =
                         IF plan = "Free" THEN NoGrant
                         ELSE [plan |-> plan, until |-> now + d * TicksPerDay]]
                  ELSE granted
  /\ UNCHANGED <<now, users, usage, messages, media, rateCalls, imageCalls, admits, hs, wk, settings, nlu, safety>>

CancelSubscription(u) ==
  /\ plans' = cancel_subscription(users, plans, u)
  /\ ret' = [NoRet EXCEPT !.op = "cancel_subscription", !.user = u]
  /\ granted' = [granted EXCEPT ![u] = NoGrant]
  /\ UNCHANGED <<now, users, usage, messages, media, rateCalls, imageCalls, admits, hs, wk, settings, nlu, safety>>

CheckRateLimit(u) ==
  /\ usage[u].rate_limit_count < MaxCount
  /\ LET r == check_rate_limit(users, plans, usage, u, now) IN
       /\ plans' = r.plans
       /\ usage' = r.usage
       /\ ret' = [NoRet EXCEPT !.op = "check_rate_limit", !.user = u,
                                !.ok = r.ret, !.plan = r.plan,
                                !.outcome = IF r.raised THEN "KeyError" ELSE "none"]
       /\ rateCalls' = IF u \in users
                         THEN [rateCalls EXCEPT ![u] = Count(@, MinuteKey(now))]
                         ELSE rateCalls
  /\ UNCHANGED <<now, users, messages, media, imageCalls, granted, admits, hs, wk, settings, nlu, safety>>

CheckImageLimit(u) ==
  /\ usage[u].image_limit_count < MaxImages
  /\ LET r == check_image_limit(users, plans, usage, u, now) IN
       /\ plans' = r.plans
       /\ usage' = r.usage
       /\ ret' = [NoRet EXCEPT !.op = "check_image_limit", !.user = u,
                                !.ok = r.ret, !.plan = r.plan,
                                !.outcome = IF r.raised THEN "KeyError" ELSE "none"]
       /\ imageCalls' = IF u \in users
                          THEN [imageCalls EXCEPT ![u] = Count(@, DayKey(now))]
                          ELSE imageCalls
  /\ UNCHANGED <<now, users, messages, media, rateCalls, granted, admits, hs, wk, settings, nlu, safety>>

Next ==
  \/ Tick
  \/ \E u \in Users : InitUser(u)
  \/ \E u \in Users : GetUserPlan(u)
  \/ \E u \in Users, plan \in PlanInputs, d \in Durations : UpgradePlan(u, plan, d)
  \/ \E u \in Users : CancelSubscription(u)
  \/ \E u \in Users : CheckRateLimit(u)
  \/ \E u \in Users : CheckImageLimit(u)

Spec == Init /\ [][Next]_vars

TypeOK ==
  /\ now \in 0..MaxTime
  /\ users \subseteq Users
  /\ \A u \in Users : plans[u].plan \in Plans

\* --------------------------------------- check_rate_limit as transactions
\* get_user_plan, get_usage and update_usage each open their own connection
\* and commit on their own; nothing ties the read of the usage row to the
\* write that follows.  Workers are callers of check_rate_limit that share
\* the database file; a worker is between its reads and its write at "read".
WRead(w, u) ==
  /\ wk[w].pc = "idle"
  /\ usage[u].rate_limit_count < MaxCount
  /\ rateCalls[u].n < MaxCount
  /\ plans' = get_user_plan_db(users, plans, u, now)
  /\ wk' = [wk EXCEPT ![w] =
              [pc |-> "read", user |-> u,
               plan |-> get_user_plan_ret(users, plans, u, now),
               rate_data |-> get_usage(users, usage, u).rateLimit, ok |-> FALSE]]
  /\ UNCHANGED <<now, users, usage, messages, media, ret, rateCalls, imageCalls,
                 granted, admits, hs, settings, nlu, safety>>

WWrite(w) ==
  /\ wk[w].pc = "read"
  /\ LET u == wk[w].user
         r == rate_decide(users, usage, u, wk[w].plan, wk[w].rate_data, now)
     IN /\ usage' = r.usage
        /\ wk' = [wk EXCEPT ![w].pc = "done", ![w].ok = r.ret]
        /\ ret' = [NoRet EXCEPT !.op = "check_rate_limit", !.user = u,
                                 !.ok = r.ret, !.plan = wk[w].plan,
                                 !.outcome = IF r.raised THEN "KeyError" ELSE "none"]
        /\ rateCalls' = IF u \in users
                          THEN [rateCalls EXCEPT ![u] = Count(@, MinuteKey(now))]
                          ELSE rateCalls
        /\ admits' = IF u \in users /\ r.ret
                       THEN [admits EXCEPT ![u] = Count(@, MinuteKey(now))]
                       ELSE admits
  /\ UNCHANGED <<now, users, plans, messages, media, imageCalls, granted, hs, settings, nlu, safety>>

WReturn(w) ==
  /\ wk[w].pc = "done"
  /\ wk' = [wk EXCEPT ![w] = IdleWorker]
  /\ UNCHANGED <<now, users, plans, usage, messages, media, ret, rateCalls, imageCalls,
                 granted, admits, hs, settings, nlu, safety>>

NextRace ==
  \/ Tick
  \/ \E u \in Users : InitUser(u)
  \/ \E w \in Workers, u \in Users : WRead(w, u)
  \/ \E w \in Workers : WWrite(w)
  \/ \E w \in Workers : WReturn(w)

SpecRace == Init /\ [][NextRace]_vars

\* --------------------------------------- tier changes inside a window
\* check_rate_limit calls, one at a time, with upgrades, cancellations and
\* get_user_plan calls between them and between the reads and the write of
\* a call
NextTier ==
  \/ Tick
  \/ \E u \in Users : InitUser(u)
  \/ \E u \in Users, d \in Durations : UpgradePlan(u, "Premium", d)
  \/ \E u \in Users : CancelSubscription(u)
  \/ \E u \in Users : GetUserPlan(u)
  \/ \E w \in Workers, u \in Users :
       (\A v \in Workers : wk[v].pc = "idle") /\ WRead(w, u)
  \/ \E w \in Workers : WWrite(w)
  \/ \E w \in Workers : WReturn(w)

SpecTier == Init /\ [][NextTier]_vars

\* ------------------------------------------ get_user_plan as transactions
\* get_user_plan closes the connection of its SELECT before it tests the
\* expiry, and set_user_plan opens another one for the UPDATE: a caller that
\* has read an expired row is at "expired" until its UPDATE is committed.
\* upgrade_plan is one UPDATE.
PRead(w, u) ==
  /\ wk[w].pc = "idle"
  /\ wk' = [wk EXCEPT ![w] =
              [IdleWorker EXCEPT !.pc = IF u \in users /\ Expired(plans[u], now)
                                         THEN "expired" ELSE "done",
                                 !.user = u,
                                 !.plan = get_user_plan_ret(users, plans, u, now)]]
  /\ UNCHANGED <<now, users, plans, usage, messages, media, ret, rateCalls, imageCalls,
                 granted, admits, hs, settings, nlu, safety>>

\* self.set_user_plan(user_id, 'Free')
PWrite(w) ==
  /\ wk[w].pc = "expired"
  /\ plans' = set_user_plan(users, plans, wk[w].user, "Free", None)
  /\ wk' = [wk EXCEPT ![w].pc = "done"]
  /\ UNCHANGED <<now, users, usage, messages, media, ret, rateCalls, imageCalls,
                 granted, admits, hs, settings, nlu, safety>>

PReturn(w) ==
  /\ wk[w].pc = "done"
  /\ ret' = [NoRet EXCEPT !.op = "get_user_plan", !.user = wk[w].user, !.ok = TRUE,
                           !.plan = wk[w].plan]
  /\ wk' = [wk EXCEPT ![w] = IdleWorker]
  /\ UNCHANGED <<now, users, plans, usage, messages, media, rateCalls, imageCalls,
                 granted, admits, hs, settings, nlu, safety>>

NextPlanRace ==
  \/ Tick
  \/ \E u \in Users : InitUser(u)
  \/ \E u \in Users, d \in Durations : UpgradePlan(u, "Premium", d)
  \/ \E w \in Workers, u \in Users : PRead(w, u)
  \/ \E w \in Workers : PWrite(w)
  \/ \E w \in Workers : PReturn(w)

SpecPlanRace == Init /\ [][NextPlanRace]_vars

\* ------------------------------------------------ GenaBot.handle_message
\* An update is a text message (message.text set, an intent may be detected
\* in it), a photo, or a photo with a caption; the MessageHandler filter
\* PHOTO | TEXT lets nothing else in.
Kinds == {"text", "photo", "caption"}

\* detect_intent results that handle_message acts on, and "none" for the rest
Intents == {"none", "clear_history", "show_settings", "show_help"}

\* what generate_content can come back with
Responses == {"text", "blank", "no_candidates", "http_error", "timeout"}

\* generate_content raises (HTTPStatusError is re-raised as Exception, a
\* timeout of the httpx client propagates)
raises(response) == response \in {"http_error", "timeout"}

\* _extract_response_text(...).strip()
extract_response_text(response) == IF response = "text" THEN "reply" ELSE ""

\* CURRENT_TIMESTAMP (one-second resolution) of the next insert into the log
\* of u: an exchange is written in a later second than the one before it
\* (a generate_content round trip lies between them); `late` tells whether
\* the second has changed since the last insert
current_timestamp(msgs, u, late) ==
  LET log == msgs[u]
      last == IF log = <<>> THEN 0 ELSE log[Len(log)].created_at
  IN IF late THEN last + 1 ELSE last

\* INSERT INTO messages; created_at DEFAULT CURRENT_TIMESTAMP
add_message(msgs, u, role, content, media_id, created_at) ==
  [msgs EXCEPT ![u] = Append(@, [role |-> role, content |-> content, media_id |-> media_id,
                                 created_at |-> created_at])]

\* INSERT INTO media; lastrowid is the new row's position
add_media(md, u) == Append(md, [user_id |-> u])

\* the turn list: a stored role 'user' stays 'user', any other becomes
\* 'model'; the new turn comes last under role 'user'
build_contents(history) ==
  Append([i \in DOMAIN history |->
            [role |-> IF history[i].role = "user" THEN "user" ELSE "model",
             text |-> history[i].content,
             created_at |-> history[i].created_at]],
         [role |-> "user", text |-> "parts", created_at |-> None])

\* generate_content: safetySettings of the request body; entries without
\* category or threshold are dropped, and the key is left out (<<>>) when
\* nothing is given or nothing is left
request_body_safety(safety_settings) ==
  LET valid(e) == "category" \in DOMAIN e /\ "threshold" \in DOMAIN e
      valid_settings ==
        [i \in 1..Cardinality({j \in DOMAIN safety_settings : valid(safety_settings[j])}) |->
           safety_settings[CHOOSE j \in DOMAIN safety_settings :
             /\ valid(safety_settings[j])
             /\ Cardinality({k \in 1..j : valid(safety_settings[k])}) = i]]
  IN IF safety_settings # <<>> THEN valid_settings ELSE <<>>

\* handle_message from get_settings to the call of generate_content: model,
\* persona, system instruction, prior turns, turn list and safety settings
\* of the request
build_request(us, pl, st, msgs, sf, u, t) ==
  LET s == get_settings(us, st, u)
      model == s.model
      persona == s.current_persona
      system_instruction == build_system_instruction(us, pl, st, u, persona, t)
      history == get_context_history(us, pl, msgs, u, t)
      safety_settings == get_safety_settings(sf)
  IN [raised |-> system_instruction.raised \/ history.raised,
      request |-> [model |-> model, persona |-> persona,
                   plan |-> get_user_plan_ret(us, pl, u, t),
                   system_instruction |-> system_instruction.ret,
                   history |-> IF system_instruction.raised THEN <<>> ELSE history.ret,
                   contents |-> IF system_instruction.raised \/ history.raised
                                  THEN <<>> ELSE build_contents(history.ret),
                   safety_settings |-> request_body_safety(safety_settings)]]

\* variant: the throttle branch does not return
handle_message_start_fallthrough(us, pl, ug, st, msgs, sf, u, kind, intent, t) ==
  LET us1 == init_user(us, u)
      pl1 == init_user_row(us, pl, u, DefaultPlanRow)
      ug1 == init_user_row(us, ug, u, DefaultUsageRow)
      st1 == init_user_row(us, st, u, DefaultSettingsRow)
      rc == check_rate_limit(us1, pl1, ug1, u, t)
      ic == check_image_limit(us1, rc.plans, rc.usage, u, t)
      rq == build_request(us1, rc.plans, st1, msgs, sf, u, t)
      base == [users |-> us1, plans |-> pl1, usage |-> ug1, settings |-> st1,
               pc |-> "done", outcome |-> "none", checked |-> {}, request |-> NoRequest]
  IN IF kind = "text" /\ intent \in {"clear_history", "show_help"}
       THEN [base EXCEPT !.outcome = "intent"]
     ELSE IF kind = "text" /\ intent = "show_settings"
       THEN [base EXCEPT !.outcome = "intent", !.plans = get_user_plan_db(us1, pl1, u, t)]
     ELSE IF rc.raised
       THEN [base EXCEPT !.plans = rc.plans, !.usage = rc.usage, !.checked = {"rate"},
                         !.outcome = "unhandled"]
     ELSE IF kind = "text"
       THEN IF rq.raised
              THEN [base EXCEPT !.plans = rc.plans, !.usage = rc.usage,
                                !.checked = {"rate"}, !.outcome = "error"]
              ELSE [base EXCEPT !.plans = rc.plans, !.usage = rc.usage,
                                !.checked = {"rate"}, !.pc = "calling",
                                !.request = rq.request]
     ELSE IF ic.raised
       THEN [base EXCEPT !.plans = ic.plans, !.usage = ic.usage,
                         !.checked = {"rate", "image"}, !.outcome = "error"]
     ELSE IF ~ic.ret
       THEN [base EXCEPT !.plans = ic.plans, !.usage = ic.usage,
                         !.checked = {"rate", "image"}, !.outcome = "image_limited"]
     ELSE [base EXCEPT !.plans = ic.plans, !.usage = ic.usage,
                       !.checked = {"rate", "image"}, !.pc = "downloading"]

\* handle_message up to its first suspension: provisioning, intent
\* short-circuit, rate check (outside the try block: what it raises leaves
\* the handler), image check, and for a text message the assembly of the
\* request
handle_message_start(us, pl, ug, st, msgs, sf, u, kind, intent, t) ==
  LET us1 == init_user(us, u)
      pl1 == init_user_row(us, pl, u, DefaultPlanRow)
      ug1 == init_user_row(us, ug, u, DefaultUsageRow)
      st1 == init_user_row(us, st, u, DefaultSettingsRow)
      rc == check_rate_limit(us1, pl1, ug1, u, t)
      ic == check_image_limit(us1, rc.plans, rc.usage, u, t)
      rq == build_request(us1, rc.plans, st1, msgs, sf, u, t)
      base == [users |-> us1, plans |-> pl1, usage |-> ug1, settings |-> st1,
               pc |-> "done", outcome |-> "none", checked |-> {}, request |-> NoRequest]
  IN IF kind = "text" /\ intent \in {"clear_history", "show_help"}
       THEN [base EXCEPT !.outcome = "intent"]
     ELSE IF kind = "text" /\ intent = "show_settings"
       THEN [base EXCEPT !.outcome = "intent", !.plans = get_user_plan_db(us1, pl1, u, t)]
     ELSE IF rc.raised
       THEN [base EXCEPT !.plans = rc.plans, !.usage = rc.usage, !.checked = {"rate"},
                         !.outcome = "unhandled"]
     ELSE IF ~rc.ret
       THEN [base EXCEPT !.plans = rc.plans, !.usage = rc.usage, !.checked = {"rate"},
                         !.outcome = "rate_limited"]
     ELSE IF kind = "text"
       THEN IF rq.raised
              THEN [base EXCEPT !.plans = rc.plans, !.usage = rc.usage,
                                !.checked = {"rate"}, !.outcome = "error"]
              ELSE [base EXCEPT !.plans = rc.plans, !.usage = rc.usage,
                                !.checked = {"rate"}, !.pc = "calling",
                                !.request = rq.request]
     ELSE IF ic.raised
       THEN [base EXCEPT !.plans = ic.plans, !.usage = ic.usage,
                         !.checked = {"rate", "image"}, !.outcome = "error"]
     ELSE IF ~ic.ret
       THEN [base EXCEPT !.plans = ic.plans, !.usage = ic.usage,
                         !.checked = {"rate", "image"}, !.outcome = "image_limited"]
     ELSE [base EXCEPT !.plans = ic.plans, !.usage = ic.usage,
                       !.checked = {"rate", "image"}, !.pc = "downloading"]

\* variant: the user turn is logged whatever the backend answered
handle_message_reply_eager(msgs, ug, u, kind, media_id, response, late) ==
  LET user_text == IF kind = "photo" THEN "[Image]" ELSE "text"
      m1 == add_message(msgs, u, "user", user_text, media_id,
                        current_timestamp(msgs, u, TRUE))
  IN IF raises(response)
       THEN [messages |-> m1, usage |-> ug, outcome |-> "error"]
     ELSE IF extract_response_text(response) = ""
       THEN [messages |-> m1, usage |-> ug, outcome |-> "no_response"]
     ELSE [messages |-> add_message(m1, u, "assistant", extract_response_text(response), None,
                                    current_timestamp(m1, u, late)),
           usage |-> ug, outcome |-> "ok"]

\* variant: a failed exchange gives the message back to the rate counter
handle_message_reply_refund(msgs, ug, u, kind, media_id, response, late) ==
  LET user_text == IF kind = "photo" THEN "[Image]" ELSE "text"
      refund == [ug EXCEPT ![u].rate_limit_count = @ - 1]
      m1 == add_message(msgs, u, "user", user_text, media_id,
                        current_timestamp(msgs, u, TRUE))
  IN IF raises(response)
       THEN [messages |-> msgs, usage |-> refund, outcome |-> "error"]
     ELSE IF extract_response_text(response) = ""
       THEN [messages |-> msgs, usage |-> refund, outcome |-> "no_response"]
     ELSE [messages |-> add_message(m1, u, "assistant", extract_response_text(response), None,
                                    current_timestamp(m1, u, late)),
           usage |-> ug, outcome |-> "ok"]

\* handle_message from the return of generate_content on: the except branch,
\* the empty-text return, or the two add_message calls (late: the second
\* insert falls in the second after the first)
handle_message_reply(msgs, ug, u, kind, media_id, response, late) ==
  LET user_text == IF kind = "photo" THEN "[Image]" ELSE "text"
      m1 == add_message(msgs, u, "user", user_text, media_id,
                        current_timestamp(msgs, u, TRUE))
  IN IF raises(response)
       THEN [messages |-> msgs, usage |-> ug, outcome |-> "error"]
     ELSE IF extract_response_text(response) = ""
       THEN [messages |-> msgs, usage |-> ug, outcome |-> "no_response"]
     ELSE [messages |-> add_message(m1, u, "assistant", extract_response_text(response), None,
                                    current_timestamp(m1, u, late)),
           usage |-> ug, outcome |-> "ok"]

\* result of an admission check this update went through, as the handler saw it
Seen(checked, name, c) ==
  IF name \notin checked THEN "none"
  ELSE IF c.raised THEN "raised"
  ELSE IF c.ret THEN "admit" ELSE "reject"

\* summary of a handle_message that has returned
Finished(hr, outcome, appended) ==
  [NoRet EXCEPT !.op = "handle_message", !.user = hr.user, !.ok = (outcome = "ok"),
                !.outcome = outcome, !.rate = hr.rate, !.image = hr.image,
                !.calls = hr.calls, !.appended = appended]

HReceive(h, u, kind, intent) ==
  /\ hs[h].pc = "idle"
  /\ \A g \in Handlers : g < h => hs[g].pc # "idle"
  /\ intent # "none" => kind = "text"
  /\ usage[u].rate_limit_count < MaxCount
  /\ usage[u].image_limit_count < MaxImages
  /\ LET r == handle_message_start(users, plans, usage, settings, messages, safety, u,
                                    kind, intent, now)
         rc == check_rate_limit(init_user(users, u), plans, usage, u, now)
         ic == check_image_limit(init_user(users, u), rc.plans, rc.usage, u, now)
         hr == [pc |-> r.pc, user |-> u, kind |-> kind, media_id |-> None,
                rate |-> Seen(r.checked, "rate", rc),
                image |-> Seen(r.checked, "image", ic),
                calls |-> IF r.pc = "calling" THEN 1 ELSE 0,
                request |-> r.request]
     IN /\ users' = r.users
        /\ plans' = r.plans
        /\ usage' = r.usage
        /\ settings' = r.settings
        /\ IF r.pc = "done"
             THEN hs' = hs /\ ret' = Finished(hr, r.outcome, 0)
             ELSE hs' = [hs EXCEPT ![h] = hr] /\ ret' = ret
        /\ rateCalls' = IF "rate" \in r.checked
                          THEN [rateCalls EXCEPT ![u] = Count(@, MinuteKey(now))]
                          ELSE rateCalls
        /\ imageCalls' = IF "image" \in r.checked
                           THEN [imageCalls EXCEPT ![u] = Count(@, DayKey(now))]
                           ELSE imageCalls
  /\ UNCHANGED <<now, messages, media, granted, admits, wk, nlu, safety>>

\* photo.get_file() and download_to_drive returned: add_media
HDownloaded(h) ==
  /\ hs[h].pc = "downloading"
  /\ Len(media) < MaxLog
  /\ media' = add_media(media, hs[h].user)
  /\ hs' = [hs EXCEPT ![h].pc = "encoding", ![h].media_id = Len(media) + 1]
  /\ UNCHANGED <<now, users, plans, usage, messages, ret, rateCalls, imageCalls,
                 granted, admits, wk, settings, nlu, safety>>

\* download_as_bytearray returned: the request is assembled (get_settings,
\* build_system_instruction, get_context_history, get_safety_settings) and
\* generate_content is awaited
HEncoded(h) ==
  /\ hs[h].pc = "encoding"
  /\ plans' = get_user_plan_db(users, plans, hs[h].user, now)
  /\ LET rq == build_request(users, plans, settings, messages, safety, hs[h].user, now) IN
       IF rq.raised
         THEN /\ hs' = [hs EXCEPT ![h] = IdleHandler]
              /\ ret' = Finished(hs[h], "error", 0)
         ELSE /\ hs' = [hs EXCEPT ![h].pc = "calling", ![h].calls = @ + 1,
                                  ![h].request = rq.request]
              /\ ret' = ret
  /\ UNCHANGED <<now, users, usage, messages, media, rateCalls, imageCalls,
                 granted, admits, wk, settings, nlu, safety>>

\* a Telegram file call raised: the except branch replies with an error
HTransportFail(h) ==
  /\ hs[h].pc \in {"downloading", "encoding"}
  /\ hs' = [hs EXCEPT ![h] = IdleHandler]
  /\ ret' = Finished(hs[h], "transport_error", 0)
  /\ UNCHANGED <<now, users, plans, usage, messages, media, rateCalls, imageCalls,
                 granted, admits, wk, settings, nlu, safety>>

\* the log of the handler's account has room for the rows the response adds
LogRoom(h, response, cap) ==
  (hs[h].pc = "calling" /\ extract_response_text(response) # "")
    => Len(messages[hs[h].user]) + 2 <= cap

HBackend(h, response, late) ==
  /\ hs[h].pc = "calling"
  /\ LET u == hs[h].user
         r == handle_message_reply(messages, usage, u, hs[h].kind, hs[h].media_id, response,
                                   late)
     IN /\ messages' = r.messages
        /\ usage' = r.usage
        /\ hs' = [hs EXCEPT ![h] = IdleHandler]
        /\ ret' = Finished(hs[h], r.outcome, Len(r.messages[u]) - Len(messages[u]))
  /\ UNCHANGED <<now, users, plans, media, rateCalls, imageCalls, granted, admits, wk, settings, nlu, safety>>

\* the coroutine is cancelled while suspended (CancelledError is not an
\* Exception, so the except branch does not run)
HAbort(h) ==
  /\ hs[h].pc # "idle"
  /\ hs' = [hs EXCEPT ![h] = IdleHandler]
  /\ ret' = Finished(hs[h], "aborted", 0)
  /\ UNCHANGED <<now, users, plans, usage, messages, media, rateCalls, imageCalls,
                 granted, admits, wk, settings, nlu, safety>>

NextBot ==
  \/ Tick
  \/ \E h \in Handlers, u \in Users, kind \in Kinds, intent \in Intents :
       HReceive(h, u, kind, intent)
  \/ \E h \in Handlers : HDownloaded(h)
  \/ \E h \in Handlers : HEncoded(h)
  \/ \E h \in Handlers : HTransportFail(h)
  \/ \E h \in Handlers, response \in Responses :
       LogRoom(h, response, MaxLog) /\ HBackend(h, response, FALSE)
  \/ \E h \in Handlers : HAbort(h)

SpecBot == Init /\ [][NextBot]_vars

\* ----------------------------------------- settings, tiers and the request
\* handle_callback "model_<id>": the id is stored as it comes
SelectModel(u, model) ==
  /\ settings' = update_settings(users, settings, u, [model |-> model])
  /\ ret' = [NoRet EXCEPT !.op = "select_model", !.user = u, !.ok = TRUE]
  /\ UNCHANGED <<now, users, plans, usage, messages, media, rateCalls, imageCalls,
                 granted, admits, hs, wk, nlu, safety>>

\* handle_callback "persona_<key>": stored when the key is in the list of the
\* tier get_user_plan returns, refused otherwise
SelectPersona(u, persona) ==
  LET plan == get_user_plan_ret(users, plans, u, now)
      available == get_available_personas(plan)
  IN /\ plans' = get_user_plan_db(users, plans, u, now)
     /\ settings' = IF persona \in Range(available)
                       THEN update_settings(users, settings, u,
                              [current_persona |-> persona,
                               systemInstruction |-> get_persona_instruction(persona)])
                       ELSE settings
     /\ ret' = [NoRet EXCEPT !.op = "select_persona", !.user = u,
                              !.ok = (persona \in Range(available)), !.plan = plan]
     /\ UNCHANGED <<now, users, usage, messages, media, rateCalls, imageCalls,
                    granted, admits, hs, wk, nlu, safety>>

\* GenaCore.update_settings(user_id, customInstruction=text)
UpdateSettings(u, text) ==
  /\ settings' = update_settings(users, settings, u, [customInstruction |-> text])
  /\ ret' = [NoRet EXCEPT !.op = "update_settings", !.user = u, !.ok = TRUE]
  /\ UNCHANGED <<now, users, plans, usage, messages, media, rateCalls, imageCalls,
                 granted, admits, hs, wk, nlu, safety>>

\* handle_callback "clear_confirm": forget_context, then the confirmation
ClearConfirm(u) ==
  /\ messages' = forget_context(messages, u)
  /\ ret' = [NoRet EXCEPT !.op = "clear_confirm", !.user = u, !.ok = TRUE]
  /\ UNCHANGED <<now, users, plans, usage, media, rateCalls, imageCalls,
                 granted, admits, hs, wk, settings, nlu, safety>>

\* model ids, persona keys and custom-instruction texts the callbacks and
\* update_settings are given
ModelInputs == {"gemini-2.5-flash", "gemini-1.5-pro"}

PersonaInputs == {"geeky"}

CustomInputs == {"", " ", " formal "}

\* updates are dispatched one at a time: a callback or a payment is handled
\* when no handle_message is suspended
Quiet == \A h \in Handlers : hs[h].pc = "idle"

NextTurn ==
  \/ Tick
  \/ \E u \in Users : Quiet /\ UpgradePlan(u, "Premium", 1)
  \/ \E u \in Users : Quiet /\ CancelSubscription(u)
  \/ \E u \in Users, model \in ModelInputs : Quiet /\ SelectModel(u, model)
  \/ \E u \in Users, persona \in PersonaInputs : Quiet /\ SelectPersona(u, persona)
  \/ \E u \in Users, text \in CustomInputs : Quiet /\ UpdateSettings(u, text)
  \/ \E u \in Users : Quiet /\ ClearConfirm(u)
  \/ \E h \in Handlers, u \in Users :
       rateCalls[u].n < MaxSent /\ HReceive(h, u, "text", "none")
  \/ \E h \in Handlers, response \in {"text", "http_error"}, late \in BOOLEAN :
       LogRoom(h, response, MaxHistory) /\ HBackend(h, response, late)

SpecTurn == Init /\ [][NextTurn]_vars

\* ------------------------------------------ tiers decoded from storage
\* fix_database migration of one data/users/<id> directory whose plan.json
\* names `plan` without expiration and whose settings.json and usage.json are
\* empty objects; an id that already has a users row is skipped
Migrate(u, plan) ==
  /\ u \notin users
  /\ users' = users \cup {u}
  /\ plans' = [plans EXCEPT ![u] = [plan |-> plan, expiration |-> None]]
  /\ settings' = [settings EXCEPT ![u] = [DefaultSettingsRow EXCEPT
                                            !.current_persona = "buddy",
                                            !.system_instruction = ""]]
  /\ usage' = [usage EXCEPT ![u] = [rate_limit_minute |-> Empty, rate_limit_count |-> 0,
                                    image_limit_count |-> 0, image_limit_reset |-> Empty]]
  /\ ret' = [NoRet EXCEPT !.op = "migrate", !.user = u, !.plan = plan]
  /\ UNCHANGED <<now, messages, media, rateCalls, imageCalls, granted, admits, hs, wk, nlu, safety>>

\* GenaCore.get_context_history
GetContextHistory(u) ==
  LET r == get_context_history(users, plans, messages, u, now) IN
  /\ plans' = get_user_plan_db(users, plans, u, now)
  /\ ret' = [NoRet EXCEPT !.op = "get_context_history", !.user = u, !.ok = ~r.raised,
                           !.plan = get_user_plan_ret(users, plans, u, now),
                           !.outcome = IF r.raised THEN "KeyError" ELSE "none"]
  /\ UNCHANGED <<now, users, usage, messages, media, rateCalls, imageCalls, granted,
                 admits, hs, wk, settings, nlu, safety>>

NextDecode ==
  \/ Tick
  \/ \E u \in Users, plan \in PlanInputs : Migrate(u, plan)
  \/ \E u \in Users : CheckRateLimit(u)
  \/ \E u \in Users : CheckImageLimit(u)
  \/ \E u \in Users : GetContextHistory(u)

SpecDecode == Init /\ [][NextDecode]_vars

\* ------------------------------------------- windows and the wall clock
\* current_minute is datetime.now() formatted: the wall clock of the host,
\* which a clock adjustment can set back
ClockBack ==
  /\ now > 0
  /\ now' = now - 1
  /\ UNCHANGED <<users, plans, usage, messages, media, ret, rateCalls, imageCalls,
                 granted, admits, hs, wk, settings, nlu, safety>>

\* check_rate_limit on accounts that are unprovisioned, provisioned by
\* init_user (NULL key), migrated (empty key, any tier name) or were counted
\* in a window the clock has since left in either direction; one call at a
\* time
NextWindow ==
  \/ Tick
  \/ ClockBack
  \/ \E u \in Users : InitUser(u)
  \/ \E u \in Users, plan \in PlanInputs : Migrate(u, plan)
  \/ \E w \in Workers, u \in Users :
       /\ \A v \in Workers : wk[v].pc = "idle"
       /\ rateCalls[u].n < MaxSent
       /\ WRead(w, u)
  \/ \E w \in Workers : WWrite(w)
  \/ \E w \in Workers : WReturn(w)

SpecWindow == Init /\ [][NextWindow]_vars

\* ------------------------------------------------- the account's rows
\* delete_user_data (called by test_gena_core): the account's rows in
\* users, plans, settings and usage and its messages are removed
delete_user_data(us, pl, st, ug, msgs, u) ==
  [users |-> us \ {u},
   plans |-> [pl EXCEPT ![u] = DefaultPlanRow],
   settings |-> [st EXCEPT ![u] = DefaultSettingsRow],
   usage |-> [ug EXCEPT ![u] = DefaultUsageRow],
   messages |-> [msgs EXCEPT ![u] = <<>>]]

DeleteUserData(u) ==
  LET r == delete_user_data(users, plans, settings, usage, messages, u) IN
  /\ users' = r.users
  /\ plans' = r.plans
  /\ settings' = r.settings
  /\ usage' = r.usage
  /\ messages' = r.messages
  /\ rateCalls' = [rateCalls EXCEPT ![u] = NoCalls]
  /\ imageCalls' = [imageCalls EXCEPT ![u] = NoCalls]
  /\ granted' = [granted EXCEPT ![u] = NoGrant]
  /\ ret' = [NoRet EXCEPT !.op = "delete_user_data", !.user = u, !.ok = (u \in users)]
  /\ UNCHANGED <<now, media, admits, hs, wk, nlu, safety>>

\* GenaCore.add_message(user_id, 'user', text)
AddMessage(u) ==
  /\ Len(messages[u]) < MaxLog
  /\ messages' = add_message(messages, u, "user", "text", None,
                             current_timestamp(messages, u, TRUE))
  /\ ret' = [NoRet EXCEPT !.op = "add_message", !.user = u, !.ok = TRUE]
  /\ UNCHANGED <<now, users, plans, usage, media, rateCalls, imageCalls,
                 granted, admits, hs, wk, settings, nlu, safety>>

NextAccount ==
  \/ Tick
  \/ \E u \in Users : InitUser(u)
  \/ \E u \in Users : UpgradePlan(u, "Premium", 1)
  \/ \E u \in Users : CancelSubscription(u)
  \/ \E u \in Users : GetUserPlan(u)
  \/ \E u \in Users : rateCalls[u].n < MaxSent /\ CheckRateLimit(u)
  \/ \E u \in Users : UpdateSettings(u, " formal ")
  \/ \E u \in Users : AddMessage(u)
  \/ \E u \in Users : ClearConfirm(u)
  \/ \E u \in Users : DeleteUserData(u)

SpecAccount == Init /\ [][NextAccount]_vars

\* ------------------------------------------------- two accounts
\* user_id values of two Telegram users; every table is keyed by user_id
Accounts == {1, 2}

InitAccounts ==
  /\ now = 0
  /\ users = {}
  /\ plans = [u \in Accounts |-> DefaultPlanRow]
  /\ usage = [u \in Accounts |-> DefaultUsageRow]
  /\ messages = [u \in Accounts |-> <<>>]
  /\ media = <<>>
  /\ ret = NoRet
  /\ rateCalls = [u \in Accounts |-> NoCalls]
  /\ imageCalls = [u \in Accounts |-> NoCalls]
  /\ granted = [u \in Accounts |-> NoGrant]
  /\ admits = [u \in Accounts |-> NoCalls]
  /\ hs = [h \in Handlers |-> IdleHandler]
  /\ wk = [w \in Workers |-> IdleWorker]
  /\ settings = [u \in Accounts |-> DefaultSettingsRow]
  /\ nlu = NoText
  /\ safety = initialize_safety_settings(<<>>)

\* the per-account operations of GenaCore, called for either account
NextIsolation ==
  \/ now < 1 /\ Tick
  \/ \E u \in Accounts : InitUser(u)
  \/ \E u \in Accounts : GetUserPlan(u)
  \/ \E u \in Accounts : UpgradePlan(u, "Premium", 0)
  \/ \E u \in Accounts : CancelSubscription(u)
  \/ \E u \in Accounts : rateCalls[u].n < 2 /\ CheckRateLimit(u)
  \/ \E u \in Accounts : imageCalls[u].n < 1 /\ CheckImageLimit(u)
  \/ \E u \in Accounts : UpdateSettings(u, " formal ")
  \/ \E u \in Accounts : Len(messages[u]) < 1 /\ AddMessage(u)
  \/ \E u \in Accounts : GetContextHistory(u)

SpecIsolation == InitAccounts /\ [][NextIsolation]_vars

\* ------------------------------------------------- storage failures
\* The DatabaseManager methods open a connection, execute and commit with
\* no try block: a sqlite3 error leaves the method, and the GenaCore method
\* that called it, as an exception.  A failure point names the check or
\* assembly step handle_message is in and the storage call that raises.
FailPoints ==
  {"init_user",
   "rate.get_user_plan", "rate.get_usage", "rate.update_usage",
   "image.get_user_plan", "image.get_usage", "image.update_usage",
   "request.get_settings", "request.get_history", "request.get_safety_settings"}

RateFailPoints == {"rate.get_user_plan", "rate.get_usage", "rate.update_usage"}

ImageFailPoints == {"image.get_user_plan", "image.get_usage", "image.update_usage"}

RequestFailPoints ==
  {"request.get_settings", "request.get_history", "request.get_safety_settings"}

\* variant: a rate check that cannot reach the database lets the message in
handle_message_failure_open(us, pl, ug, st, msgs, sf, u, kind, t, at) ==
  LET us1 == init_user(us, u)
      pl1 == init_user_row(us, pl, u, DefaultPlanRow)
      ug1 == init_user_row(us, ug, u, DefaultUsageRow)
      st1 == init_user_row(us, st, u, DefaultSettingsRow)
      rc == check_rate_limit(us1, pl1, ug1, u, t)
      ic == check_image_limit(us1, rc.plans, rc.usage, u, t)
      admitted == ~rc.raised /\ rc.ret
      rq == build_request(us1, pl1, st1, msgs, sf, u, t)
      base == [reached |-> TRUE, users |-> us1, plans |-> pl1, usage |-> ug1,
               settings |-> st1, pc |-> "done", outcome |-> "unhandled",
               rate |-> "raised", image |-> "none", request |-> NoRequest]
  IN IF at = "init_user"
       THEN [base EXCEPT !.users = us, !.plans = pl, !.usage = ug, !.settings = st,
                         !.rate = "none"]
     ELSE IF at \in RateFailPoints
       THEN IF kind = "text" /\ ~rq.raised
              THEN [base EXCEPT !.pc = "calling", !.rate = "admit", !.outcome = "none",
                                !.request = rq.request]
              ELSE base
     ELSE IF at \in ImageFailPoints
       THEN [base EXCEPT !.reached = (kind # "text" /\ admitted),
                         !.plans = rc.plans, !.usage = rc.usage,
                         !.rate = "admit", !.image = "raised", !.outcome = "error"]
     ELSE [base EXCEPT !.reached = (kind = "text" /\ admitted),
                       !.plans = rc.plans, !.usage = rc.usage,
                       !.rate = "admit", !.outcome = "error"]

\* handle_message when the storage call `at` raises before the first
\* suspension: what was committed before it stays (the rows of init_user, a
\* lazy downgrade, the rate charge); initialize_user and check_rate_limit are
\* outside the try block, so what they raise leaves the handler, anything
\* later ends in the except branch.  reached: the handler gets to that call.
handle_message_failure(us, pl, ug, st, msgs, sf, u, kind, t, at) ==
  LET us1 == init_user(us, u)
      pl1 == init_user_row(us, pl, u, DefaultPlanRow)
      ug1 == init_user_row(us, ug, u, DefaultUsageRow)
      st1 == init_user_row(us, st, u, DefaultSettingsRow)
      rc == check_rate_limit(us1, pl1, ug1, u, t)
      ic == check_image_limit(us1, rc.plans, rc.usage, u, t)
      admitted == ~rc.raised /\ rc.ret
      base == [reached |-> TRUE, users |-> us1, plans |-> pl1, usage |-> ug1,
               settings |-> st1, pc |-> "done", outcome |-> "unhandled",
               rate |-> "raised", image |-> "none", request |-> NoRequest]
  IN IF at = "init_user"
       THEN [base EXCEPT !.users = us, !.plans = pl, !.usage = ug, !.settings = st,
                         !.rate = "none"]
     ELSE IF at = "rate.get_user_plan"
       THEN base
     ELSE IF at \in RateFailPoints
       THEN [base EXCEPT !.plans = rc.plans]
     ELSE IF at = "image.get_user_plan"
       THEN [base EXCEPT !.reached = (kind # "text" /\ admitted),
                         !.plans = rc.plans, !.usage = rc.usage,
                         !.rate = "admit", !.image = "raised", !.outcome = "error"]
     ELSE IF at \in ImageFailPoints
       THEN [base EXCEPT !.reached = (kind # "text" /\ admitted),
                         !.plans = ic.plans, !.usage = rc.usage,
                         !.rate = "admit", !.image = "raised", !.outcome = "error"]
     ELSE [base EXCEPT !.reached = (kind = "text" /\ admitted),
                       !.plans = rc.plans, !.usage = rc.usage,
                       !.rate = "admit", !.outcome = "error"]

\* an update whose handling runs into a failing storage call before the
\* handler first suspends
HStorageFail(h, u, kind, at) ==
  /\ hs[h].pc = "idle"
  /\ usage[u].rate_limit_count < MaxCount
  /\ usage[u].image_limit_count < MaxImages
  /\ LET r == handle_message_failure(users, plans, usage, settings, messages, safety, u,
                                      kind, now, at)
         hr == [pc |-> r.pc, user |-> u, kind |-> kind, media_id |-> None,
                rate |-> r.rate, image |-> r.image,
                calls |-> IF r.pc = "calling" THEN 1 ELSE 0, request |-> r.request]
     IN /\ r.reached
        /\ users' = r.users
        /\ plans' = r.plans
        /\ usage' = r.usage
        /\ settings' = r.settings
        /\ IF r.pc = "done"
             THEN hs' = hs /\ ret' = Finished(hr, r.outcome, 0)
             ELSE hs' = [hs EXCEPT ![h] = hr] /\ ret' = ret
        /\ rateCalls' = IF r.rate = "admit"
                          THEN [rateCalls EXCEPT ![u] = Count(@, MinuteKey(now))]
                          ELSE rateCalls
  /\ UNCHANGED <<now, messages, media, imageCalls, granted, admits, wk, nlu, safety>>

\* a photo has been downloaded and a storage call raises while the request
\* is assembled: the except branch replies with an error
HEncodedFail(h, at) ==
  /\ hs[h].pc = "encoding"
  /\ at \in RequestFailPoints
  /\ plans' = IF at = "request.get_settings"
                THEN plans
                ELSE get_user_plan_db(users, plans, hs[h].user, now)
  /\ hs' = [hs EXCEPT ![h] = IdleHandler]
  /\ ret' = Finished(hs[h], "error", 0)
  /\ UNCHANGED <<now, users, usage, messages, media, rateCalls, imageCalls,
                 granted, admits, wk, settings, nlu, safety>>

NextFail ==
  \/ Tick
  \/ \E u \in Users : Quiet /\ UpgradePlan(u, "Premium", 0)
  \/ \E h \in Handlers, u \in Users, kind \in {"text", "photo"} :
       rateCalls[u].n < MaxSent /\ HReceive(h, u, kind, "none")
  \/ \E h \in Handlers, u \in Users, kind \in {"text", "photo"}, at \in FailPoints :
       rateCalls[u].n < MaxSent /\ HStorageFail(h, u, kind, at)
  \/ \E h \in Handlers : HDownloaded(h)
  \/ \E h \in Handlers : HEncoded(h)
  \/ \E h \in Handlers, at \in RequestFailPoints : HEncodedFail(h, at)
  \/ \E h \in Handlers, response \in {"text", "http_error"} :
       LogRoom(h, response, MaxLog) /\ HBackend(h, response, FALSE)

SpecFail == Init /\ [][NextFail]_vars

\* the two add_message calls that follow a non-empty response
ReplyFailPoints == {"reply.add_message_user", "reply.add_message_assistant"}

\* handle_message from a non-empty response on when the add_message call
\* `at` raises: each add_message commits on its own connection, so the user
\* row written by the first call stays when the second call raises; the
\* except branch replies with an error
handle_message_reply_failure(msgs, u, kind, media_id, at) ==
  LET user_text == IF kind = "photo" THEN "[Image]" ELSE "text"
      m1 == add_message(msgs, u, "user", user_text, media_id,
                        current_timestamp(msgs, u, TRUE))
  IN IF at = "reply.add_message_user"
       THEN [messages |-> msgs, outcome |-> "error"]
       ELSE [messages |-> m1, outcome |-> "error"]

\* generate_content returned text and a storage call of the logging raises
HReplyFail(h, at) ==
  /\ hs[h].pc = "calling"
  /\ Len(messages[hs[h].user]) + 2 <= MaxLog
  /\ LET u == hs[h].user
         r == handle_message_reply_failure(messages, u, hs[h].kind, hs[h].media_id, at)
     IN /\ messages' = r.messages
        /\ hs' = [hs EXCEPT ![h] = IdleHandler]
        /\ ret' = Finished(hs[h], r.outcome, Len(r.messages[u]) - Len(messages[u]))
  /\ UNCHANGED <<now, users, plans, usage, media, rateCalls, imageCalls, granted, admits,
                 wk, settings, nlu, safety>>

\* messages and photos whose exchange is logged, or whose logging fails
NextLog ==
  \/ Tick
  \/ \E h \in Handlers, u \in Users, kind \in {"text", "photo"} :
       rateCalls[u].n < MaxSent /\ HReceive(h, u, kind, "none")
  \/ \E h \in Handlers : HDownloaded(h)
  \/ \E h \in Handlers : HEncoded(h)
  \/ \E h \in Handlers, response \in {"text", "http_error"} :
       LogRoom(h, response, MaxLog) /\ HBackend(h, response, FALSE)
  \/ \E h \in Handlers, at \in ReplyFailPoints : HReplyFail(h, at)

SpecLog == Init /\ [][NextLog]_vars

\* ------------------------------------------------- the safety policy
\* DatabaseManager.set_safety_settings, the one writer of the singleton
SetSafetySettings(new_settings) ==
  /\ safety' = set_safety_settings(safety, new_settings)
  /\ ret' = [NoRet EXCEPT !.op = "set_safety_settings", !.ok = TRUE]
  /\ UNCHANGED <<now, users, plans, usage, messages, media, rateCalls, imageCalls,
                 granted, admits, hs, wk, settings, nlu>>

\* the process is started again: GenaCore.__init__ on the same database file
Restart ==
  /\ safety' = initialize_safety_settings(safety)
  /\ ret' = [NoRet EXCEPT !.op = "restart", !.ok = TRUE]
  /\ UNCHANGED <<now, users, plans, usage, messages, media, rateCalls, imageCalls,
                 granted, admits, hs, wk, settings, nlu>>

\* lists handed to set_safety_settings: the empty list and a one-pair policy
SafetyInputs ==
  {<<>>, <<[category |-> "HARM_CATEGORY_HARASSMENT", threshold |-> "BLOCK_NONE"]>>}

NextPolicy ==
  \/ Tick
  \/ \E new_settings \in SafetyInputs : Quiet /\ SetSafetySettings(new_settings)
  \/ Quiet /\ Restart
  \/ \E h \in Handlers, u \in Users :
       rateCalls[u].n < MaxSent /\ HReceive(h, u, "text", "none")
  \/ \E h \in Handlers, response \in {"text", "http_error"} :
       LogRoom(h, response, MaxLog) /\ HBackend(h, response, FALSE)

SpecPolicy == Init /\ [][NextPolicy]_vars

\* ------------------------------------------------------------ NLUEngine
\* the Intent enumeration (values)
Intent == {"clear_history", "show_settings", "show_help", "change_persona",
           "change_model", "show_plan", "upgrade_plan", "feedback", "start", "none"}

\* INTENT_PATTERNS in declaration order; a pattern 'a.*b' is the list of the
\* literals a, b that have to be found one after the other
INTENT_PATTERNS ==
  <<
   [intent |-> "clear_history",
    patterns |-> << <<"clear", "history">>, <<"delete", "history">>,
                     <<"reset", "conversation">>, <<"start", "fresh">>,
                     <<"new", "conversation">>, <<"wipe", "chat">>,
                     <<"forget", "history">> >>],
   [intent |-> "show_settings",
    patterns |-> << <<"show", "settings">>, <<"open", "settings">>,
                     <<"settings">>, <<"my", "settings">>, <<"configure">>,
                     <<"preferences">> >>],
   [intent |-> "show_help",
    patterns |-> << <<"help">>, <<"commands">>, <<"what", "can", "do">>,
                     <<"help", "me">>, <<"how", "use">>, <<"instructions">> >>],
   [intent |-> "change_persona",
    patterns |-> << <<"change", "persona">>, <<"switch", "persona">>,
                     <<"different", "persona">>, <<"be", "like">>,
                     <<"change", "personality">>, <<"act", "like">>,
                     <<"pretend", "be">> >>],
   [intent |-> "change_model",
    patterns |-> << <<"change", "model">>, <<"switch", "model">>,
                     <<"different", "model">>, <<"use", "model">> >>],
   [intent |-> "show_plan",
    patterns |-> << <<"show", "plan">>, <<"my", "plan">>, <<"current", "plan">>,
                     <<"what", "plan">>, <<"plan", "info">>, <<"subscription">> >>],
   [intent |-> "upgrade_plan",
    patterns |-> << <<"upgrade">>, <<"premium">>, <<"better", "plan">>,
                     <<"get", "premium">>, <<"subscribe">> >>],
   [intent |-> "feedback",
    patterns |-> << <<"feedback">>, <<"report", "issue">>, <<"bug">>,
                     <<"problem">>, <<"issue", "report">>, <<"suggestion">> >>],
   [intent |-> "start",
    patterns |-> << <<"start">>, <<"begin">>, <<"hello">>, <<"hi">> >>]
  >>

\* a text is a list of words separated by blanks
Words == {"clear", "history", "settings", "HELP", "my", "plan", "ok"}

Texts == UNION {[1..n -> Words] : n \in 1..MaxWords}

\* str.lower() on the words of the model
lower(word) == IF word = "HELP" THEN "help" ELSE word

\* the literals of the pattern table that occur inside a lower-case word
Literals(word) ==
  IF word = "history" THEN {"history", "hi"}
  ELSE IF word = "ok" THEN {}
  ELSE {word}

\* re.search(pattern, text): the literals occur in this order; no word of the
\* model holds two literals of one pattern, so they sit in different words
search(pattern, text) ==
  \E f \in [DOMAIN pattern -> DOMAIN text] :
    /\ \A i, j \in DOMAIN pattern : i < j => f[i] < f[j]
    /\ \A i \in DOMAIN pattern : pattern[i] \in Literals(text[f[i]])

\* some pattern of the k-th intent matches
intent_matches(k, text) ==
  \E i \in DOMAIN INTENT_PATTERNS[k].patterns :
    search(INTENT_PATTERNS[k].patterns[i], text)

\* variant: the loop keeps going and the last matching intent is returned
detect_intent_last_match(text) ==
  LET t == [i \in DOMAIN text |-> lower(text[i])]
      hits == {k \in DOMAIN INTENT_PATTERNS : intent_matches(k, t)}
  IN IF hits = {} THEN "none"
     ELSE INTENT_PATTERNS[CHOOSE k \in hits : \A j \in hits : j <= k].intent

\* detect_intent: lower-case the text, walk the table in declaration order
\* and return at the first intent with a matching pattern
detect_intent(text) ==
  LET t == [i \in DOMAIN text |-> lower(text[i])]
      hits == {k \in DOMAIN INTENT_PATTERNS : intent_matches(k, t)}
  IN IF hits = {} THEN "none"
     ELSE INTENT_PATTERNS[CHOOSE k \in hits : \A j \in hits : k <= j].intent

\* a fresh database and a text about to be classified
InitIntent ==
  /\ now = 0
  /\ users = {}
  /\ plans = [u \in Users |-> DefaultPlanRow]
  /\ usage = [u \in Users |-> DefaultUsageRow]
  /\ messages = [u \in Users |-> <<>>]
  /\ media = <<>>
  /\ ret = NoRet
  /\ rateCalls = [u \in Users |-> NoCalls]
  /\ imageCalls = [u \in Users |-> NoCalls]
  /\ granted = [u \in Users |-> NoGrant]
  /\ admits = [u \in Users |-> NoCalls]
  /\ hs = [h \in Handlers |-> IdleHandler]
  /\ wk = [w \in Workers |-> IdleWorker]
  /\ settings = [u \in Users |-> DefaultSettingsRow]
  /\ nlu \in {[text |-> text, intent |-> "unset"] : text \in Texts}
  /\ safety = initialize_safety_settings(<<>>)

\* GenaCore.detect_intent(text)
DetectIntent ==
  /\ nlu.intent = "unset"
  /\ nlu' = [nlu EXCEPT !.intent = detect_intent(nlu.text)]
  /\ UNCHANGED <<now, users, plans, usage, messages, media, ret, rateCalls, imageCalls,
                 granted, admits, hs, wk, settings, safety>>

NextIntent == DetectIntent

SpecIntent == InitIntent /\ [][NextIntent]_vars

\* ================================================================ claims
\* The tier an account holds at time t, read off the stored row: a paid tier
\* whose expiry has passed counts as Free.
TierAt(row, t) ==
  IF row.expiration # None /\ row.expiration < t THEN "Free" ELSE row.plan

\* C1 - Rate admission within one window: a check_rate_limit call on an
\* account whose stored minute-key is the current one stores count+1 and
\* returns true exactly when the new count is <= the rate limit of the
\* account's current tier; on a Free account (limit 5) the n-th call of a
\* minute-key is admitted exactly when n <= 5.
ThmC1_RateAdmission ==
  /\ [][\A u \in Users :
          (CheckRateLimit(u) /\ u \in users
             /\ usage[u].rate_limit_minute = MinuteKey(now))
          => /\ usage'[u].rate_limit_count = usage[u].rate_limit_count + 1
             /\ ret'.ok <=> (usage[u].rate_limit_count + 1
                               <= PLAN_LIMITS[TierAt(plans[u], now)].rate)]_vars
  /\ [](\A u \in Users :
          (ret.op = "check_rate_limit" /\ ret.user = u /\ u \in users /\ ret.plan = "Free")
          => (ret.ok <=> rateCalls[u].n <= 5))

\* the sixth call of a Free account in one minute-key has just been rejected
WitC1_SixthRejected ==
  \E u \in users :
    /\ ret.op = "check_rate_limit" /\ ret.user = u /\ ~ret.ok /\ ret.plan = "Free"
    /\ rateCalls[u].n = 6
    /\ usage[u].rate_limit_count = 6

\* C2 - Window rotation: an admission check that finds a stored window key
\* different from the current one stores (currentKey, 1) and returns true
\* whatever the previous count was; one that finds the same key stores the
\* previous count plus 1.  Both for the minute counter and the day counter.
ThmC2_WindowRotation ==
  [][\A u \in Users :
       /\ (CheckRateLimit(u) /\ u \in users) =>
            IF usage[u].rate_limit_minute # MinuteKey(now)
              THEN /\ usage'[u].rate_limit_minute = MinuteKey(now)
                   /\ usage'[u].rate_limit_count = 1
                   /\ ret'.ok
              ELSE /\ usage'[u].rate_limit_minute = usage[u].rate_limit_minute
                   /\ usage'[u].rate_limit_count = usage[u].rate_limit_count + 1
       /\ (CheckImageLimit(u) /\ u \in users) =>
            IF usage[u].image_limit_reset # DayKey(now)
              THEN /\ usage'[u].image_limit_reset = DayKey(now)
                   /\ usage'[u].image_limit_count = 1
                   /\ ret'.ok
              ELSE /\ usage'[u].image_limit_reset = usage[u].image_limit_reset
                   /\ usage'[u].image_limit_count = usage[u].image_limit_count + 1]_vars

\* on a later day both counters have been reset to 1 by an admitted check
WitC2_BothRotated ==
  \E u \in users :
    /\ MinuteKey(now) > 0 /\ DayKey(now) > 0
    /\ usage[u].rate_limit_minute = MinuteKey(now) /\ usage[u].rate_limit_count = 1
    /\ usage[u].image_limit_reset = DayKey(now) /\ usage[u].image_limit_count = 1
    /\ rateCalls[u].n = 1 /\ imageCalls[u].n = 1
    /\ ret.op = "check_image_limit" /\ ret.ok

\* C3 - Charge on attempt: a rejected check still stores the incremented
\* count and leaves the window key alone, so the stored count of a window is
\* the number of checks made in it, rejected ones included.
ThmC3_ChargeOnAttempt ==
  /\ [][\A u \in Users :
          /\ (CheckRateLimit(u) /\ u \in users /\ ~ret'.ok)
               => /\ usage'[u].rate_limit_count = usage[u].rate_limit_count + 1
                  /\ usage'[u].rate_limit_minute = usage[u].rate_limit_minute
          /\ (CheckImageLimit(u) /\ u \in users /\ ~ret'.ok)
               => /\ usage'[u].image_limit_count = usage[u].image_limit_count + 1
                  /\ usage'[u].image_limit_reset = usage[u].image_limit_reset]_vars
  /\ [](\A u \in users :
          /\ usage[u].rate_limit_count = rateCalls[u].n
          /\ usage[u].rate_limit_minute = rateCalls[u].key
          /\ usage[u].image_limit_count = imageCalls[u].n
          /\ usage[u].image_limit_reset = imageCalls[u].key)

\* seven checks in one minute-key, the last one a rejected Free call, stored
\* count 7
WitC3_RejectedCounted ==
  \E u \in users :
    /\ rateCalls[u].n = 7 /\ ret.plan = "Free"
    /\ usage[u].rate_limit_count = 7
    /\ ret.op = "check_rate_limit" /\ ~ret.ok

\* C4 - Media admission: the daily image check is the same fixed-window
\* algorithm keyed by calendar day; on a Free account (3 images a day) the
\* n-th check of a day is admitted exactly when n <= 3, and the first check
\* of another day is admitted with the stored count reset to 1.
ThmC4_MediaAdmission ==
  /\ [](\A u \in Users :
          (ret.op = "check_image_limit" /\ ret.user = u /\ u \in users /\ ret.plan = "Free")
          => (ret.ok <=> imageCalls[u].n <= 3))
  /\ [][\A u \in Users :
          (CheckImageLimit(u) /\ u \in users /\ usage[u].image_limit_reset # DayKey(now))
          => /\ ret'.ok
             /\ usage'[u].image_limit_count = 1
             /\ usage'[u].image_limit_reset = DayKey(now)]_vars

\* the fourth image check of a Free account on one day has just been rejected
WitC4_FourthRejected ==
  \E u \in users :
    /\ ret.op = "check_image_limit" /\ ret.user = u /\ ~ret.ok /\ ret.plan = "Free"
    /\ imageCalls[u].n = 4
    /\ usage[u].image_limit_count = 4 /\ usage[u].image_limit_reset = DayKey(now)

\* C5 - No lost quota updates: when admission checks of one account in one
\* window key run concurrently, their reads and writes of the usage row
\* interleaved in any order, then once none of them is between its read and
\* its write the stored count is the number of checks made in that window,
\* and at most `limit` (5 for a Free account) of them were admitted.
ClaimC5_NoLostUpdates ==
  \A u \in users :
    (\A w \in Workers : wk[w].pc # "read")
    => /\ (rateCalls[u].n > 0 =>
             /\ usage[u].rate_limit_minute = rateCalls[u].key
             /\ usage[u].rate_limit_count = rateCalls[u].n)
       /\ admits[u].n <= PLAN_LIMITS["Free"].rate

\* C6 - Lazy downgrade: get_user_plan never returns a paid tier whose stored
\* expiry is earlier than the clock; finding one, it rewrites the row to
\* (Free, no expiry) and returns Free, and a second call right after also
\* returns Free and leaves the expiry empty.
ThmC6_LazyDowngrade ==
  [][\A u \in Users :
       GetUserPlan(u) =>
         /\ ~(ret'.plan # "Free" /\ plans[u].expiration # None /\ plans[u].expiration < now)
         /\ (u \in users /\ plans[u].expiration # None /\ plans[u].expiration < now)
              => /\ ret'.plan = "Free"
                 /\ plans'[u] = [plan |-> "Free", expiration |-> None]
                 /\ get_user_plan_ret(users', plans', u, now') = "Free"
                 /\ get_user_plan_db(users', plans', u, now')[u].expiration = None]_vars

\* a Premium subscription has run out and get_user_plan has just downgraded it
WitC6_Downgraded ==
  \E u \in users :
    /\ ret.op = "get_user_plan" /\ ret.user = u /\ ret.plan = "Free"
    /\ granted[u].plan = "Premium" /\ granted[u].until < now
    /\ plans[u] = [plan |-> "Free", expiration |-> None]

\* C7 - Upgrade then expiry: after a successful upgrade of a provisioned
\* account to a paid tier T for d days (and no later upgrade or cancel),
\* get_user_plan returns T while the clock is before the expiry and Free once
\* the clock is past it.
ThmC7_UpgradeThenExpiry ==
  [][\A u \in Users :
       (GetUserPlan(u) /\ granted[u].plan # "none")
       => /\ (now < granted[u].until) => ret'.plan = granted[u].plan
          /\ (now > granted[u].until) => ret'.plan = "Free"]_vars

\* a one-day Premium upgrade is still read back as Premium on a later tick
\* of that day
WitC7_StillPremium ==
  \E u \in users :
    /\ ret.op = "get_user_plan" /\ ret.user = u /\ ret.plan = "Premium"
    /\ granted[u].plan = "Premium" /\ granted[u].until > now
    /\ granted[u].until - now < TicksPerDay

\* C8 - A rejected admission short-circuits: a handle_message whose rate
\* check or daily image check returned false issues no generate_content
\* request and appends nothing to the message log; it ends with the throttle
\* notice, and the step that rejects it leaves log, media table and
\* coroutines as they were.
ThmC8_RejectShortCircuits ==
  /\ []((ret.op = "handle_message" /\ (ret.rate = "reject" \/ ret.image = "reject"))
          => /\ ret.calls = 0
             /\ ret.appended = 0
             /\ ret.outcome \in {"rate_limited", "image_limited"})
  /\ [](\A h \in Handlers : hs[h].rate # "reject" /\ hs[h].image # "reject")
  /\ [][\A h \in Handlers, u \in Users, kind \in Kinds :
          LET rc == check_rate_limit(init_user(users, u), plans, usage, u, now)
              ic == check_image_limit(init_user(users, u), rc.plans, rc.usage, u, now)
          IN (HReceive(h, u, kind, "none") /\ ~rc.raised
                /\ (~rc.ret \/ (kind # "text" /\ ~ic.raised /\ ~ic.ret)))
             => /\ messages' = messages
                /\ media' = media
                /\ hs' = hs
                /\ ret'.op = "handle_message"
                /\ ret'.outcome \in {"rate_limited", "image_limited"}]_vars

\* the sixth message of a minute-key is turned away with nothing logged for
\* it, after an earlier message of that minute was answered and logged
WitC8_SixthTurnedAway ==
  \E u \in users :
    /\ ret.op = "handle_message" /\ ret.user = u /\ ret.outcome = "rate_limited"
    /\ ret.rate = "reject" /\ ret.calls = 0 /\ ret.appended = 0
    /\ rateCalls[u].n = 6 /\ usage[u].rate_limit_count = 6
    /\ Len(messages[u]) = 2

\* C9 - Upstream failure persists nothing: when generate_content raises
\* (error status, timeout) or answers without extractable text, the handled
\* message appends neither the user turn nor an assistant turn to the log.
ThmC9_FailurePersistsNothing ==
  /\ []((ret.op = "handle_message" /\ ret.outcome \in {"error", "no_response"})
          => ret.appended = 0)
  /\ [][\A h \in Handlers, response \in Responses \ {"text"}, late \in BOOLEAN :
          HBackend(h, response, late) => messages' = messages]_vars

\* a photo message got through both checks, its request came back without
\* text, and the log is still empty
WitC9_PhotoNoResponse ==
  \E u \in users :
    /\ ret.op = "handle_message" /\ ret.user = u /\ ret.outcome = "no_response"
    /\ ret.rate = "admit" /\ ret.image = "admit" /\ ret.calls = 1
    /\ messages[u] = <<>>

\* C10 - Quota is not refunded: once an admission check has charged a
\* message, nothing that happens to that message later (backend error, empty
\* response, abort, image-limit rejection after rate admission) lowers or
\* resets the rate or image counter: a step of a handler that is past its
\* admission leaves the usage row alone, counts never go down inside a
\* window key, and an image-limit rejection keeps the rate charge.
ThmC10_NoRefund ==
  [][\A u \in Users :
       /\ (usage'[u].rate_limit_minute = usage[u].rate_limit_minute
             => usage'[u].rate_limit_count >= usage[u].rate_limit_count)
       /\ (usage'[u].image_limit_reset = usage[u].image_limit_reset
             => usage'[u].image_limit_count >= usage[u].image_limit_count)
       /\ (\E h \in Handlers : hs[h].pc # "idle" /\ hs[h].user = u /\ hs'[h] # hs[h])
             => usage'[u] = usage[u]
       /\ (ret' # ret /\ ret'.op = "handle_message" /\ ret'.user = u
             /\ ret'.outcome = "image_limited")
             => /\ usage'[u].rate_limit_minute = MinuteKey(now)
                /\ usage'[u].rate_limit_count =
                     IF usage[u].rate_limit_minute = MinuteKey(now)
                       THEN usage[u].rate_limit_count + 1 ELSE 1]_vars

\* the second message of a minute, a photo, failed at the backend and both
\* charges are still on the usage row
WitC10_FailedStillCharged ==
  \E u \in users :
    /\ ret.op = "handle_message" /\ ret.user = u /\ ret.outcome = "error"
    /\ ret.image = "admit"
    /\ usage[u].rate_limit_minute = MinuteKey(now) /\ usage[u].rate_limit_count = 2
    /\ usage[u].image_limit_reset = DayKey(now) /\ usage[u].image_limit_count = 1

\* C11 - Bounded context: whatever the number of stored messages, the list
\* of prior turns get_context_history returns, and the one a handle_message
\* has put in its generate_content request, is no longer than context_turns
\* of the tier get_user_plan resolves for the account.
ThmC11_BoundedContext ==
  /\ [](\A u \in Users :
          Len(get_context_history(users, plans, messages, u, now).ret)
            <= PLAN_LIMITS[get_user_plan_ret(users, plans, u, now)].context_turns)
  /\ [](\A h \in Handlers :
          hs[h].pc = "calling"
          => Len(hs[h].request.history) <= PLAN_LIMITS[hs[h].request.plan].context_turns)

\* a Free account with four stored messages has a request in flight that
\* carries the newest three of them
WitC11_LogLongerThanContext ==
  \E h \in Handlers :
    /\ hs[h].pc = "calling" /\ hs[h].request.plan = "Free"
    /\ Len(messages[hs[h].user]) = 4
    /\ Len(hs[h].request.history) = 3
    /\ Range(hs[h].request.history) \subseteq Range(messages[hs[h].user])

\* C12 - Persona fallback: when the stored persona is not in the allowed
\* list of the tier a message is resolved to, the request is built with the
\* instruction of the first persona of that list and the stored preference
\* has been rewritten to that persona.
ClaimC12_PersonaFallback ==
  \A h \in Handlers :
    LET rq == hs[h].request
        allowed == get_available_personas(rq.plan)
    IN (hs[h].pc = "calling" /\ rq.persona \notin Range(allowed))
       => /\ rq.system_instruction[1].text = allowed[1]
          /\ settings[hs[h].user].current_persona = allowed[1]

\* C13 - Model entitlement: the model id of every generate_content request
\* is in the allowed-model list of the tier the message was resolved to,
\* after any sequence of model selections, upgrades, cancellations and
\* expiries.
ClaimC13_ModelEntitlement ==
  \A h \in Handlers :
    hs[h].pc = "calling"
    => hs[h].request.model \in Range(get_available_models(hs[h].request.plan))

\* C14 - System-instruction composition: for an account whose tier allows
\* custom instructions and whose stored custom instruction is non-empty,
\* build_system_instruction returns persona instruction, name clause, custom
\* clause, in that order; when the stored custom instruction is empty or
\* whitespace it returns persona instruction and name clause only.  The same
\* holds for the system instruction of a request in flight.
ThmC14_InstructionOrder ==
  /\ [](\A u \in Users, persona_key \in Range(PERSONAS) \cup {"friend"} :
          LET plan == get_user_plan_ret(users, plans, u, now)
              custom == get_settings(users, settings, u).customInstruction
              r == build_system_instruction(users, plans, settings, u, persona_key, now).ret
          IN /\ (PLAN_LIMITS[plan].custom_instruction /\ custom \notin {"", " "})
                  => /\ Len(r) = 3
                     /\ r[1].part = "persona" /\ r[2].part = "name" /\ r[3].part = "custom"
                     /\ r[1].text = get_persona_instruction(persona_key)
                     /\ r[3].text = strip(custom)
             /\ (custom \in {"", " "})
                  => /\ Len(r) = 2
                     /\ r[1].part = "persona" /\ r[2].part = "name"
                     /\ r[1].text = get_persona_instruction(persona_key))
  /\ [](\A h \in Handlers :
          (hs[h].pc = "calling" /\ Len(hs[h].request.system_instruction) = 3)
          => /\ hs[h].request.system_instruction[1].part = "persona"
             /\ hs[h].request.system_instruction[2].part = "name"
             /\ hs[h].request.system_instruction[3].part = "custom")

\* a Premium account with a stored custom instruction has a request in flight
\* whose system instruction ends with that instruction as its third clause
WitC14_CustomClauseSent ==
  \E h \in Handlers :
    /\ hs[h].pc = "calling" /\ hs[h].request.plan = "Premium"
    /\ settings[hs[h].user].custom_instruction = " formal "
    /\ Len(hs[h].request.system_instruction) = 3
    /\ hs[h].request.system_instruction[3] = [part |-> "custom", text |-> "formal"]

\* C15 - Capability table totality: each of the four tiers Free, Basic,
\* Premium, VIP has a non-empty allowed-persona list, a non-empty
\* allowed-model list and an entry in the limits table with rate, images,
\* context_turns and custom_instruction; so has the tier any account
\* resolves to.
ThmC15_TableTotality ==
  /\ \A tier \in {"Free", "Basic", "Premium", "VIP"} :
       /\ tier \in DOMAIN PERSONA_ACCESS /\ Len(PERSONA_ACCESS[tier]) > 0
       /\ tier \in DOMAIN ALL_MODELS /\ Len(ALL_MODELS[tier]) > 0
       /\ Len(get_available_personas(tier)) > 0
       /\ Len(get_available_models(tier)) > 0
       /\ tier \in DOMAIN PLAN_LIMITS
       /\ {"rate", "images", "context_turns", "custom_instruction"}
            \subseteq DOMAIN PLAN_LIMITS[tier]
  /\ \A u \in Users :
       LET plan == get_user_plan_ret(users, plans, u, now) IN
       /\ plan \in DOMAIN PLAN_LIMITS
       /\ Len(get_available_personas(plan)) > 0
       /\ Len(get_available_models(plan)) > 0

\* get_user_plan has returned a paid tier, whose lists have three models and
\* seven personas
WitC15_PaidTierLookedUp ==
  \E u \in users :
    /\ ret.op = "get_user_plan" /\ ret.user = u
    /\ ret.plan \in DOMAIN PLAN_PRICES
    /\ Len(get_available_models(ret.plan)) = 3
    /\ Len(get_available_personas(ret.plan)) = 7
    /\ PLAN_LIMITS[ret.plan].custom_instruction

\* C16 - Defensive tier decoding: for a stored tier that is not one of the
\* four enumerated ones, every capability lookup gives the Free entry
\* (models, personas, custom-instruction eligibility), and admission checks
\* and context assembly for the account finish without raising.
ClaimC16_DefensiveDecoding ==
  \A u \in users :
    LET plan == get_user_plan_ret(users, plans, u, now) IN
    plan \notin {"Free", "Basic", "Premium", "VIP"}
    => /\ get_available_models(plan) = ALL_MODELS["Free"]
       /\ get_available_personas(plan) = PERSONA_ACCESS["Free"]
       /\ ~has_custom_instruction(users, plans, u, now).raised
       /\ ~get_context_history(users, plans, messages, u, now).raised
       /\ (ret.user = u /\ ret.op \in {"check_rate_limit", "check_image_limit",
                                        "get_context_history"})
            => ret.outcome # "KeyError"

\* C17 - First-touch provisioning: get_user_plan on an account id that has
\* no stored rows returns Free and leaves the account provisioned (its users,
\* plans, settings and usage rows exist afterwards).
ClaimC17_FirstTouchProvisioning ==
  [][\A u \in Users :
       (GetUserPlan(u) /\ u \notin users)
       => /\ ret'.plan = "Free"
          /\ u \in users'
          /\ plans'[u] = DefaultPlanRow]_vars

\* C18 - Forget history is destructive: once the account has confirmed the
\* forget/clear action its message log is empty, and a turn built right
\* after it contains no prior turns.
ClaimC18_ForgetHistory ==
  [][\A u \in Users :
       ClearConfirm(u)
       => /\ messages'[u] = <<>>
          /\ get_context_history(users', plans', messages', u, now').ret = <<>>]_vars

\* C19 - Cancel: after cancel_subscription the stored subscription is
\* (Free, no expiry) whatever it was before, get_user_plan returns Free, and
\* the account's settings, usage counters and message log are as they were.
ThmC19_Cancel ==
  [][\A u \in Users :
       CancelSubscription(u)
       => /\ u \in users => plans'[u] = [plan |-> "Free", expiration |-> None]
          /\ get_user_plan_ret(users', plans', u, now') = "Free"
          /\ get_user_plan_db(users', plans', u, now') = plans'
          /\ settings' = settings
          /\ usage' = usage
          /\ messages' = messages
          /\ users' = users]_vars

\* a subscription under which persona geeky was chosen has been cancelled;
\* the persona, the minute's message count and the logged exchange are still
\* there
WitC19_CancelledKeepsRest ==
  \E u \in users :
    /\ ret.op = "cancel_subscription" /\ ret.user = u
    /\ plans[u] = [plan |-> "Free", expiration |-> None]
    /\ settings[u].current_persona = "geeky"
    /\ usage[u].rate_limit_count > 0
    /\ Len(messages[u]) > 0

\* C20 - Intent classification is first-match in table order: detect_intent
\* returns the first intent, in declaration order of the pattern table, one
\* of whose patterns matches the lower-cased text, even when a later intent
\* matches too; it returns none exactly when no pattern of any intent
\* matches; the result is a member of the Intent enumeration.
ThmC20_FirstMatch ==
  nlu.intent # "unset"
  => LET t == [i \in DOMAIN nlu.text |-> lower(nlu.text[i])]
         matching == {k \in DOMAIN INTENT_PATTERNS :
                        \E i \in DOMAIN INTENT_PATTERNS[k].patterns :
                          search(INTENT_PATTERNS[k].patterns[i], t)}
     IN /\ nlu.intent \in Intent
        /\ nlu.intent = "none" <=> matching = {}
        /\ \A k \in matching :
             (\A j \in matching : k <= j) => nlu.intent = INTENT_PATTERNS[k].intent

\* "HELP settings" matches both the settings and the help patterns and is
\* classified as show_settings, the intent declared first
WitC20_EarlierIntentWins ==
  /\ nlu.text = <<"HELP", "settings">>
  /\ nlu.intent = "show_settings"
  /\ intent_matches(2, <<"help", "settings">>)
  /\ intent_matches(3, <<"help", "settings">>)
\* C21 - Safety-policy fallback: every generate_content request carries the
\* stored safety policy when the stored list is non-empty, and the built-in
\* default set when the stored list is empty at the time the request is
\* built, also when it was emptied after the process had started.
ClaimC21_SafetyFallback ==
  \A h \in Handlers :
    hs[h].pc = "calling"
    => hs[h].request.safety_settings =
         IF get_safety_settings(safety) # <<>>
           THEN get_safety_settings(safety)
           ELSE DEFAULT_SAFETY_SETTINGS
\* C22 - Fail closed on storage failure: when a persistence call fails while
\* an inbound message is handled (provisioning, tier read, quota read or
\* write, preference read, history read), the handling ends there: no
\* generate_content request is issued after the failure, nothing is logged,
\* and a check that failed is never taken as an admission.
ThmC22_FailClosed ==
  /\ [][\A h \in Handlers, u \in Users, kind \in Kinds, at \in FailPoints :
          HStorageFail(h, u, kind, at)
          => /\ hs' = hs
             /\ messages' = messages
             /\ ret'.op = "handle_message" /\ ret'.calls = 0 /\ ~ret'.ok
             /\ ret'.outcome \in {"unhandled", "error"}
             /\ at \in RateFailPoints \cup {"init_user"} => ret'.rate # "admit"
             /\ at \in ImageFailPoints => ret'.image # "admit"]_vars
  /\ [][\A h \in Handlers, at \in RequestFailPoints :
          HEncodedFail(h, at)
          => /\ hs'[h].pc = "idle"
             /\ messages' = messages
             /\ ret'.op = "handle_message" /\ ret'.calls = 0 /\ ret'.outcome = "error"]_vars

\* a storage call of the rate check raised for a message sent after an
\* earlier one was answered: the message ended without a request, and the
\* counter still shows the one earlier message
WitC22_RateWriteFailed ==
  \E u \in users :
    /\ ret.op = "handle_message" /\ ret.user = u /\ ret.outcome = "unhandled"
    /\ ret.rate = "raised" /\ ret.calls = 0
    /\ usage[u].rate_limit_count = 1 /\ Len(messages[u]) = 2
    /\ \A h \in Handlers : hs[h].pc = "idle"
\* C23 - Settings round-trip: on a provisioned account, update_settings with
\* recognized fields followed by get_settings gives the written value for
\* each field named and the previous value for every field not named (model
\* through the model callback, customInstruction through update_settings,
\* current_persona and systemInstruction through an accepted persona
\* callback).
ThmC23_SettingsRoundTrip ==
  [][\A u \in Users :
       LET a == get_settings(users, settings, u)
           b == get_settings(users', settings', u)
       IN /\ \A model \in ModelInputs :
               (SelectModel(u, model) /\ u \in users)
               => /\ b.model = model
                  /\ b.current_persona = a.current_persona
                  /\ b.systemInstruction = a.systemInstruction
                  /\ b.customInstruction = a.customInstruction
          /\ \A text \in CustomInputs :
               (UpdateSettings(u, text) /\ u \in users)
               => /\ b.customInstruction = text
                  /\ b.model = a.model
                  /\ b.current_persona = a.current_persona
                  /\ b.systemInstruction = a.systemInstruction
          /\ \A persona \in PersonaInputs :
               (SelectPersona(u, persona) /\ u \in users
                  /\ persona \in Range(get_available_personas(
                                         get_user_plan_ret(users, plans, u, now))))
               => /\ b.current_persona = persona
                  /\ b.systemInstruction = get_persona_instruction(persona)
                  /\ b.model = a.model
                  /\ b.customInstruction = a.customInstruction]_vars

\* a custom instruction has just been written on an account that had chosen
\* another model and persona before; all three read back
WitC23_ThreeFieldsKept ==
  \E u \in users :
    /\ ret.op = "update_settings" /\ ret.user = u
    /\ get_settings(users, settings, u) =
         [model |-> "gemini-1.5-pro", current_persona |-> "geeky",
          systemInstruction |-> "geeky", customInstruction |-> " formal "]
ThmC29_InitUserIdempotent ==
  [][\A u \in Users :
       (InitUser(u) /\ u \in users)
       => /\ u \in users'
          /\ plans'[u] = plans[u]
          /\ settings'[u] = settings[u]
          /\ usage'[u] = usage[u]
          /\ messages'[u] = messages[u]]_vars

\* init_user has just run on an account that holds a Premium subscription,
\* a custom instruction, a rate count and a logged message
WitC29_ReprovisionedKeepsAll ==
  \E u \in users :
    /\ ret.op = "init_user" /\ ret.user = u
    /\ plans[u].plan = "Premium" /\ plans[u].expiration # None
    /\ settings[u].custom_instruction = " formal "
    /\ usage[u].rate_limit_count = 2
    /\ Len(messages[u]) = 1
\* C25 - Concurrent tier resolution is safe: when get_user_plan calls for
\* one account interleave with each other and with an upgrade_plan, the
\* stored subscription is what some serial order of them leaves; a lazy
\* downgrade whose read saw the expired subscription never overwrites an
\* upgrade committed after that read, so once no caller is between its read
\* and its write, the row of an account whose last upgrade has not run out
\* is that upgrade's (tier, expiry); and a caller that saw the expired row
\* returns Free.
ClaimC25_ConcurrentTierResolution ==
  /\ \A u \in users :
       ((\A w \in Workers : wk[w].pc # "expired")
          /\ granted[u].plan # "none" /\ now <= granted[u].until)
       => plans[u] = [plan |-> granted[u].plan, expiration |-> granted[u].until]
  /\ \A w \in Workers : wk[w].pc = "expired" => wk[w].plan = "Free"
\* C26 - Pipeline order: the quota admission check comes before intent
\* classification, so a text message in which a short-circuit intent
\* (clear, settings, help) is detected still has its attempt written to the
\* rate counter as check_rate_limit writes it, and is answered with the
\* throttle notice when that check rejects it.
ClaimC26_QuotaBeforeIntent ==
  [][\A h \in Handlers, u \in Users, intent \in Intents \ {"none"} :
       HReceive(h, u, "text", intent) =>
         LET us1 == init_user(users, u)
             rc == check_rate_limit(us1, init_user_row(users, plans, u, DefaultPlanRow),
                                    init_user_row(users, usage, u, DefaultUsageRow), u, now)
         IN /\ usage' = rc.usage
            /\ ~rc.raised /\ ~rc.ret => ret'.outcome = "rate_limited"]_vars
\* C27 - Turn-list shape: the turn list of a request is the most recently
\* appended min(n, context_turns) stored messages of the account in the
\* order they were appended (a user message before the reply to it, also
\* when both carry the same timestamp), role "user" kept and "assistant"
\* sent as "model", followed by exactly one new turn of role "user".
ClaimC27_TurnListShape ==
  /\ \A u \in users :
       LET rq == build_request(users, plans, settings, messages, safety, u, now)
           log == messages[u]
           n == Len(log)
           limit == PLAN_LIMITS[rq.request.plan].context_turns
           k == IF n < limit THEN n ELSE limit
           contents == rq.request.contents
       IN ~rq.raised =>
            /\ Len(contents) = k + 1
            /\ \A m \in 1..k :
                 contents[m] = [role |-> IF log[n - k + m].role = "assistant"
                                          THEN "model" ELSE "user",
                                text |-> log[n - k + m].content,
                                created_at |-> log[n - k + m].created_at]
            /\ contents[k + 1].role = "user"
  /\ \A h \in Handlers :
       hs[h].pc = "calling" =>
         \A m \in 2..Len(hs[h].request.contents) - 1 :
           ~(hs[h].request.contents[m - 1].role = "model"
               /\ hs[h].request.contents[m].role = "user"
               /\ hs[h].request.contents[m - 1].created_at
                    = hs[h].request.contents[m].created_at)
\* C28 - Custom instruction is tier-gated at build time: whatever upgrades,
\* custom-instruction writes, cancellations and expiries came before, a
\* system instruction built while the resolved tier has custom_instruction
\* = FALSE contains no custom clause (also in a request in flight); building
\* a request leaves the stored custom instruction as it was; and a stored
\* non-blank instruction is the third clause whenever the resolved tier
\* allows it.
ThmC28_CustomGatedAtBuild ==
  /\ [](\A u \in Users, persona_key \in Range(PERSONAS) :
          LET plan == get_user_plan_ret(users, plans, u, now)
              r == build_system_instruction(users, plans, settings, u, persona_key, now)
              custom == strip(get_settings(users, settings, u).customInstruction)
          IN ~KeyError(plan) =>
               /\ ~r.raised
               /\ ~PLAN_LIMITS[plan].custom_instruction
                    => \A i \in DOMAIN r.ret : r.ret[i].part # "custom"
               /\ (PLAN_LIMITS[plan].custom_instruction /\ custom # "")
                    => Len(r.ret) = 3 /\ r.ret[3] = [part |-> "custom", text |-> custom])
  /\ [](\A h \in Handlers :
          (hs[h].pc = "calling" /\ ~PLAN_LIMITS[hs[h].request.plan].custom_instruction)
          => \A i \in DOMAIN hs[h].request.system_instruction :
               hs[h].request.system_instruction[i].part # "custom")
  /\ [][\A h \in Handlers, u \in Users :
          (u \in users /\ HReceive(h, u, "text", "none")) => settings'[u] = settings[u]]_vars

\* an account that wrote a custom instruction and is resolved to Free has a
\* request in flight with the persona and name clauses only, the instruction
\* still stored
WitC28_StoredButNotSent ==
  \E h \in Handlers :
    /\ hs[h].pc = "calling" /\ hs[h].request.plan = "Free"
    /\ settings[hs[h].user].custom_instruction = " formal "
    /\ Len(hs[h].request.system_instruction) = 2
\* C30 - Missing prior state is a new window: a check_rate_limit that read
\* no usage row, a NULL or empty window key, or a key later than the minute
\* of the clock (clock set back) returns True and does not raise, whatever
\* the tier name; for a provisioned account it stores (current minute, 1);
\* for an account without rows it stores nothing; and a check that read the
\* current minute's key is limited by the stored count.
ThmC30_MissingStateIsNewWindow ==
  [][\A w \in Workers :
       WWrite(w) =>
         LET u == wk[w].user
             rate_data == wk[w].rate_data
             current_minute == MinuteKey(now)
         IN /\ (rate_data.minute \in {None, Empty} \/ rate_data.minute > current_minute)
                 => /\ wk'[w].ok /\ ret'.ok /\ ret'.outcome # "KeyError"
                    /\ u \in users => /\ usage'[u].rate_limit_minute = current_minute
                                      /\ usage'[u].rate_limit_count = 1
                    /\ u \notin users => usage' = usage
            /\ (rate_data.minute = current_minute /\ ~KeyError(wk[w].plan))
                 => wk'[w].ok = (rate_data.count + 1 <= PLAN_LIMITS[wk[w].plan].rate)]_vars

\* a check that read a window key later than the clock's minute has returned
\* True and the account's row holds (current minute, 1)
WitC30_ClockSetBack ==
  \E w \in Workers :
    /\ wk[w].pc = "done" /\ wk[w].ok /\ wk[w].user \in users
    /\ \A v \in Workers \ {w} : wk[v].pc = "idle"
    /\ wk[w].rate_data.minute > MinuteKey(now)
    /\ ret.op = "check_rate_limit" /\ ret.ok
    /\ usage[wk[w].user].rate_limit_minute = MinuteKey(now)
    /\ usage[wk[w].user].rate_limit_count = 1
\* C31 - The two quota counters are independent: a check_rate_limit call
\* leaves the stored image count and image day-key as they were, and a
\* check_image_limit call leaves the stored rate count and minute-key as
\* they were, whether the call starts a new window or increments the count.
ThmC31_CountersIndependent ==
  [][\A u \in Users :
       /\ CheckRateLimit(u)
            => /\ usage'[u].image_limit_count = usage[u].image_limit_count
               /\ usage'[u].image_limit_reset = usage[u].image_limit_reset
       /\ CheckImageLimit(u)
            => /\ usage'[u].rate_limit_count = usage[u].rate_limit_count
               /\ usage'[u].rate_limit_minute = usage[u].rate_limit_minute]_vars

\* a check_rate_limit call has just started a new minute while the image
\* counter of the running day stands at two
WitC31_RateResetKeepsImages ==
  \E u \in users :
    /\ ret.op = "check_rate_limit" /\ ret.user = u
    /\ usage[u].rate_limit_minute = MinuteKey(now) /\ usage[u].rate_limit_count = 1
    /\ MinuteKey(now) > 0
    /\ usage[u].image_limit_reset = DayKey(now) /\ usage[u].image_limit_count = 2
\* C32 - Subscription shape: in every state reached through provisioning,
\* upgrade_plan (payment confirmation included), cancel_subscription and
\* get_user_plan, the stored tier of an account is Free if and only if its
\* stored expiry is NULL.
ThmC32_SubscriptionShape ==
  \A u \in Users : (plans[u].plan = "Free") <=> (plans[u].expiration = None)

\* an upgrade for zero days has just stored a paid tier, with the current
\* time as its expiry
WitC32_PaidTierHasExpiry ==
  \E u \in users :
    /\ ret.op = "upgrade_plan" /\ ret.user = u /\ ret.ok /\ ret.plan = "Premium"
    /\ now > 0
    /\ plans[u] = [plan |-> "Premium", expiration |-> now]
\* C33 - Exchanges are logged as whole pairs: whenever no handle_message is
\* in progress, the message log of every account is a sequence of (user
\* message, assistant message) pairs, each user row immediately followed by
\* the assistant row of the same exchange, also when a storage write fails
\* between the two appends.
ClaimC33_WholePairs ==
  Quiet =>
    \A u \in Users :
      /\ Len(messages[u]) % 2 = 0
      /\ \A i \in DOMAIN messages[u] :
           messages[u][i].role = IF i % 2 = 1 THEN "user" ELSE "assistant"
\* C34 - A successful upgrade is effective: for every account id, one that
\* was never provisioned included, when upgrade_plan(account, plan, d) with
\* a paid plan returns True the stored subscription is (plan, now + d days)
\* and a get_user_plan that follows before that expiry returns plan.
ClaimC34_UpgradeEffective ==
  [][\A u \in Users, plan \in PlanInputs \ {"Free"}, d \in Durations :
       (UpgradePlan(u, plan, d) /\ ret'.ok)
         => /\ plans'[u] = [plan |-> plan, expiration |-> now + d * TicksPerDay]
            /\ get_user_plan_ret(users', plans', u, now') = plan]_vars
\* C35 - Invalid upgrade is rejected without effect: upgrade_plan with a
\* plan name that is not a key of PLAN_LIMITS returns False and leaves the
\* stored tier and expiry of the account as they were.
ThmC35_InvalidUpgradeRejected ==
  [][\A u \in Users, plan \in PlanInputs \ DOMAIN PLAN_LIMITS, d \in Durations :
       UpgradePlan(u, plan, d) => ~ret'.ok /\ plans'[u] = plans[u]]_vars

\* upgrade_plan with the unknown name Gold has returned False for an
\* account that holds a running Premium subscription
WitC35_GoldRefusedPremiumKept ==
  \E u \in users :
    /\ ret.op = "upgrade_plan" /\ ret.user = u /\ ret.plan = "Gold" /\ ~ret.ok
    /\ plans[u].plan = "Premium" /\ plans[u].expiration >= now
\* C36 - Tier changes do not touch the quota window: upgrade_plan,
\* cancel_subscription and the expiry downgrade of get_user_plan leave the
\* stored window keys and counts as they were, and a check_rate_limit that
\* finds the current minute's key stores count + 1 and returns whether
\* count + 1 is within the limit of the tier resolved at that check; so an
\* account rejected under its old tier is admitted after an upgrade exactly
\* when the incremented count is within the new limit, and a downgrade
\* inside the window can turn further checks into rejections.
ThmC36_TierChangeKeepsWindow ==
  /\ [][\A u \in Users :
          ((\E d \in Durations : UpgradePlan(u, "Premium", d))
             \/ CancelSubscription(u) \/ GetUserPlan(u)
             \/ \E w \in Workers : WRead(w, u))
          => usage' = usage]_vars
  /\ [][\A w \in Workers :
          (WWrite(w) /\ wk[w].user \in users
             /\ wk[w].rate_data.minute = MinuteKey(now))
          => /\ wk'[w].ok
                  = (wk[w].rate_data.count + 1 <= PLAN_LIMITS[wk[w].plan].rate)
             /\ usage'[wk[w].user].rate_limit_count = wk[w].rate_data.count + 1
             /\ usage'[wk[w].user].rate_limit_minute = MinuteKey(now)]_vars

\* seven checks in one minute of which six were admitted: the sixth was
\* rejected under Free, the seventh is admitted under Premium at count 7
WitC36_AdmittedAfterUpgrade ==
  \E w \in Workers :
    /\ wk[w].pc = "done" /\ wk[w].ok /\ wk[w].plan = "Premium"
    /\ wk[w].user \in users
    /\ usage[wk[w].user].rate_limit_minute = MinuteKey(now)
    /\ usage[wk[w].user].rate_limit_count = PLAN_LIMITS["Free"].rate + 2
    /\ admits[wk[w].user] = [key |-> MinuteKey(now), n |-> PLAN_LIMITS["Free"].rate + 1]
\* C37 - No orphan media references: whenever no handle_message is in
\* progress, every row of the media table is referenced by a message of
\* the same account; an image message whose backend call fails or returns
\* no text leaves no media row behind.
ClaimC37_NoOrphanMedia ==
  Quiet =>
    \A i \in DOMAIN media :
      \E j \in DOMAIN messages[media[i].user_id] :
        messages[media[i].user_id][j].media_id = i
\* C38 - Per-account isolation: an admission check, tier resolution,
\* upgrade, cancel, settings update, message append or history read on
\* account a leaves the subscription, preferences, quota state, message log
\* and provisioning of every other account b as they were; and what the
\* operation returns and writes for a is what it returns and writes when
\* the rows of every other account are absent.  (The first conjunct in
\* contrapositive form: a step that changes a row of b is not an operation
\* on a.)
ThmC38_AccountIsolation ==
  /\ [][\A a \in Accounts : \A b \in Accounts \ {a} :
          ~(/\ plans'[b] = plans[b] /\ settings'[b] = settings[b]
            /\ usage'[b] = usage[b] /\ messages'[b] = messages[b]
            /\ (b \in users') = (b \in users)
            /\ ret'.user = a)
          => ~(\/ InitUser(a) \/ GetUserPlan(a) \/ UpgradePlan(a, "Premium", 0)
               \/ CancelSubscription(a) \/ CheckRateLimit(a) \/ CheckImageLimit(a)
               \/ UpdateSettings(a, " formal ") \/ AddMessage(a)
               \/ GetContextHistory(a))]_vars
  /\ [](\A a \in Accounts :
          LET us0 == users \cap {a}
              pl0 == [u \in Accounts |-> IF u = a THEN plans[u] ELSE DefaultPlanRow]
              ug0 == [u \in Accounts |-> IF u = a THEN usage[u] ELSE DefaultUsageRow]
              st0 == [u \in Accounts |-> IF u = a THEN settings[u] ELSE DefaultSettingsRow]
              ms0 == [u \in Accounts |-> IF u = a THEN messages[u] ELSE <<>>]
              rc == check_rate_limit(users, plans, usage, a, now)
              rc0 == check_rate_limit(us0, pl0, ug0, a, now)
              ic == check_image_limit(users, plans, usage, a, now)
              ic0 == check_image_limit(us0, pl0, ug0, a, now)
              kwargs == [customInstruction |-> " formal "]
          IN /\ rc.ret = rc0.ret /\ rc.raised = rc0.raised /\ rc.plan = rc0.plan
             /\ rc.usage[a] = rc0.usage[a] /\ rc.plans[a] = rc0.plans[a]
             /\ ic.ret = ic0.ret /\ ic.raised = ic0.raised /\ ic.plan = ic0.plan
             /\ ic.usage[a] = ic0.usage[a] /\ ic.plans[a] = ic0.plans[a]
             /\ get_user_plan_ret(users, plans, a, now) = get_user_plan_ret(us0, pl0, a, now)
             /\ get_user_plan_db(users, plans, a, now)[a] = get_user_plan_db(us0, pl0, a, now)[a]
             /\ upgrade_plan(users, plans, a, "Premium", 0, now)[a]
                  = upgrade_plan(us0, pl0, a, "Premium", 0, now)[a]
             /\ cancel_subscription(users, plans, a)[a] = cancel_subscription(us0, pl0, a)[a]
             /\ get_settings(users, settings, a) = get_settings(us0, st0, a)
             /\ update_settings(users, settings, a, kwargs)[a]
                  = update_settings(us0, st0, a, kwargs)[a]
             /\ add_message(messages, a, "user", "text", None,
                            current_timestamp(messages, a, TRUE))[a]
                  = add_message(ms0, a, "user", "text", None,
                                current_timestamp(ms0, a, TRUE))[a]
             /\ get_context_history(users, plans, messages, a, now)
                  = get_context_history(us0, pl0, ms0, a, now))

\* account 1 has just had its second check of the minute while account 2 is
\* Premium with its own count, custom instruction and logged message
WitC38_TwoAccountsDiffer ==
  /\ users = Accounts
  /\ ret.op = "check_rate_limit" /\ ret.user = 1 /\ ret.ok
  /\ plans[1].plan = "Free" /\ usage[1].rate_limit_count = 2
  /\ settings[1].custom_instruction = "" /\ messages[1] = <<>>
  /\ plans[2].plan = "Premium" /\ usage[2].rate_limit_count = 1
  /\ settings[2].custom_instruction = " formal " /\ Len(messages[2]) = 1
====
